---- MODULE Spec2Model ----
(***************************************************************************)
(* Swades Connect: the synchronization store (shared/storage.ts), its      *)
(* write lock (shared/lock.ts) and the background handlers that drive      *)
(* them (background/index.ts), with the content-side identifier cache and  *)
(* page scan that feed them.                                               *)
(*                                                                         *)
(* JavaScript values are tagged records: Str(s) with s a tuple of          *)
(* one-character strings, Num(n), NULL and UNDEFINED.  A stored record is  *)
(* a function from its own property names to values; a property that is    *)
(* absent is not in its DOMAIN.                                            *)
(***************************************************************************)
EXTENDS Integers, Sequences, FiniteSets, TLC

VARIABLES
    local,      \* chrome.storage.local["odoo_data"]
    session,    \* chrome.storage.session["extraction_lock"], or NoLock
    now,        \* Date.now()
    last,       \* the last completed store operation, its input and the store before it
    supplied,   \* per contact id and field, the last non-empty value an upsert supplied
    procs,      \* the running background handlers: position and locals of each
    idCache,    \* content script: opportunityIdCache (normalized name -> Odoo id)
    scanned,    \* content script: the candidates of a finished scan, not yet sent
    ticks,      \* how often the clock has advanced
    tab,        \* content script: the extraction guard, the traversal run and the pager
    rpc,        \* content script: activityIdArray and what handleRpcSignal did last
    worker,     \* background worker: the message in hand, its responses, the broadcasts
    watcher     \* content script: the DOM watcher, its debounce timer and its callbacks

vars == <<local, session, now, last, supplied, procs, idCache, scanned, ticks, tab, rpc, worker, watcher>>

----------------------------------------------------------------------------
(* JavaScript values *)

Str(s) == [str |-> s]
Num(n) == [num |-> n]
NULL == [null |-> TRUE]
UNDEFINED == [undefined |-> TRUE]
EMPTY == Str(<<>>)

IsStr(v) == DOMAIN v = {"str"}
IsNum(v) == DOMAIN v = {"num"}

\* ToBoolean: '' , 0, null and undefined are falsy
Truthy(v) ==
    IF IsStr(v) THEN v.str # <<>>
    ELSE IF IsNum(v) THEN v.num # 0
    ELSE FALSE

\* rec[k] in JavaScript: undefined when the property is absent
Get(rec, k) == IF k \in DOMAIN rec THEN rec[k] ELSE UNDEFINED

Upper == <<"A", "B", "C", "D", "J", "N", "W", "X">>
Lower == <<"a", "b", "c", "d", "j", "n", "w", "x">>

LowerChar(c) ==
    IF \E i \in DOMAIN Upper : Upper[i] = c
    THEN Lower[CHOOSE i \in DOMAIN Upper : Upper[i] = c]
    ELSE c

\* String.prototype.toLowerCase
ToLowerCase(s) == [i \in DOMAIN s |-> LowerChar(s[i])]

RECURSIVE TrimStart(_)
TrimStart(s) == IF s # <<>> /\ Head(s) = " " THEN TrimStart(Tail(s)) ELSE s

RECURSIVE TrimEnd(_)
TrimEnd(s) ==
    IF s # <<>> /\ s[Len(s)] = " " THEN TrimEnd(SubSeq(s, 1, Len(s) - 1)) ELSE s

\* String.prototype.trim
Trim(s) == TrimEnd(TrimStart(s))

Digits == {"0", "1", "2", "3", "4", "5", "6", "7", "8", "9"}

\* /^<prefix>_\d+$/.test(id), prefix given with its underscore
MatchesRealId(prefix, id) ==
    /\ IsStr(id)
    /\ Len(id.str) > Len(prefix)
    /\ SubSeq(id.str, 1, Len(prefix)) = prefix
    /\ \A i \in (Len(prefix) + 1)..Len(id.str) : id.str[i] \in Digits

OPP == <<"o", "p", "p", "_">>
ACT == <<"a", "c", "t", "_">>
CONTACT == <<"c", "o", "n", "t", "a", "c", "t", "_">>

----------------------------------------------------------------------------
(* shared/storage.ts *)

RecordTypes == {"contacts", "opportunities", "activities"}

DEFAULT_DATA ==
    [contacts |-> <<>>, opportunities |-> <<>>, activities |-> <<>>, lastSync |-> 0]

\* the guard of the merge loop: value !== '' && value !== null && value !== undefined
\* the merge guard without its null and undefined tests
IsSuppliedNotEmptyString(value) == value # EMPTY

IsSupplied(value) == value # EMPTY /\ value # NULL /\ value # UNDEFINED

\* a merge that stores the incoming record as it came
MergeRecordOverwrite(existingRecord, record) == record

\* { ...existingRecord } overlaid with the incoming properties whose value is supplied
MergeRecord(existingRecord, record) ==
    LET keys == DOMAIN existingRecord \cup {k \in DOMAIN record : IsSupplied(record[k])}
    IN  [k \in keys |->
            IF k \in DOMAIN record /\ IsSupplied(record[k]) THEN record[k]
            ELSE existingRecord[k]]

\* Array.prototype.findIndex over ids; 0 when there is none (the code's -1)
IndexOfId(records, id) ==
    IF \E i \in DOMAIN records : Get(records[i], "id") = id
    THEN CHOOSE i \in DOMAIN records :
            /\ Get(records[i], "id") = id
            /\ \A j \in 1..(i - 1) : Get(records[j], "id") # id
    ELSE 0

\* Map.prototype.set on a Map kept as the list of its values in insertion order
MapSet(map, record) ==
    LET i == IndexOfId(map, Get(record, "id"))
    IN  IF i = 0 THEN Append(map, record) ELSE [map EXCEPT ![i] = record]

\* a deduplication in which the first record of an id stays
RECURSIVE deduplicateByIdKeepFirst(_)
deduplicateByIdKeepFirst(records) ==
    IF records = <<>> THEN <<>>
    ELSE LET rest == deduplicateByIdKeepFirst(SubSeq(records, 1, Len(records) - 1))
             record == records[Len(records)]
         IN  IF IndexOfId(rest, Get(record, "id")) = 0 THEN Append(rest, record) ELSE rest

\* a bulk save that keeps every element of existing ++ new
deduplicateByIdKeepAll(records) == records

RECURSIVE deduplicateById(_)
deduplicateById(records) ==
    IF records = <<>> THEN <<>>
    ELSE MapSet(deduplicateById(SubSeq(records, 1, Len(records) - 1)),
                records[Len(records)])

\* a bulk save that first hands a stored opportunity of the same name the scanned id
saveDataMatchingNames(existing, newContacts, newOpportunities, newActivities, time) ==
    LET key(r) == IF IsStr(Get(r, "name")) THEN Trim(ToLowerCase(r.name.str)) ELSE <<>>
        same(i) == {j \in DOMAIN newOpportunities :
                        key(newOpportunities[j]) = key(existing.opportunities[i])}
        renamed == [i \in DOMAIN existing.opportunities |->
                      IF same(i) = {} THEN existing.opportunities[i]
                      ELSE [existing.opportunities[i] EXCEPT
                              !.id = newOpportunities[CHOOSE j \in same(i) : TRUE].id]]
    IN  [contacts      |-> deduplicateById(existing.contacts \o newContacts),
         opportunities |-> deduplicateById(renamed \o newOpportunities),
         activities    |-> deduplicateById(existing.activities \o newActivities),
         lastSync      |-> time]

\* saveData(newContacts, newOpportunities, newActivities) on the value getData() returned
saveData(existing, newContacts, newOpportunities, newActivities, time) ==
    [contacts      |-> deduplicateById(existing.contacts \o newContacts),
     opportunities |-> deduplicateById(existing.opportunities \o newOpportunities),
     activities    |-> deduplicateById(existing.activities \o newActivities),
     lastSync      |-> time]

FilterOut(records, ids) == SelectSeq(records, LAMBDA r : Get(r, "id") \notin ids)

\* deleteRecord(type, id): lastSync is written back as it was read
deleteRecord(existing, type, id) ==
    [existing EXCEPT ![type] = FilterOut(@, {id})]

\* deleteAllRecords(type)
deleteAllRecords(existing, type) ==
    [existing EXCEPT ![type] = <<>>]

\* one turn of the loop of upsertRecords over the Map of existing records
UpsertOne(existingMap, record) ==
    LET i == IndexOfId(existingMap, Get(record, "id"))
    IN  IF i # 0
        THEN [existingMap EXCEPT ![i] = MergeRecord(existingMap[i], record)]
        ELSE Append(existingMap, record)

RECURSIVE UpsertAll(_, _)
UpsertAll(existingMap, records) ==
    IF records = <<>> THEN existingMap
    ELSE UpsertAll(UpsertOne(existingMap, Head(records)), Tail(records))

\* an upsert that writes its own collection without spreading what it read
upsertRecordsAlone(existing, type, records, time) ==
    [DEFAULT_DATA EXCEPT ![type] = UpsertAll(deduplicateById(existing[type]), records),
                         !.lastSync = time]

\* the locked body of upsertRecords(type, records)
upsertRecords(existing, type, records, time) ==
    [existing EXCEPT ![type] = UpsertAll(deduplicateById(@), records),
                     !.lastSync = time]

\* the number of incoming records that met an entry with their id (result.updated)
RECURSIVE CountUpdated(_, _)
CountUpdated(existingMap, records) ==
    IF records = <<>> THEN 0
    ELSE (IF IndexOfId(existingMap, Get(Head(records), "id")) # 0 THEN 1 ELSE 0)
         + CountUpdated(UpsertOne(existingMap, Head(records)), Tail(records))

\* a batch delete whose filter keeps the requested ids instead of the others
deleteRecordsByIdKeepRequested(existing, type, ids, time) ==
    [existing EXCEPT ![type] = SelectSeq(@, LAMBDA r : Get(r, "id") \in ids),
                     !.lastSync = time]

\* the locked body of deleteRecordsById(type, ids)
deleteRecordsById(existing, type, ids, time) ==
    [existing EXCEPT ![type] = FilterOut(@, ids), !.lastSync = time]

\* a count of the ids requested instead of the entries removed
deletedCountRequested(existing, type, ids) == Cardinality(ids)

\* existingRecords.length - recordsToKeep.length
deletedCount(existing, type, ids) ==
    Len(existing[type]) - Len(FilterOut(existing[type], ids))

----------------------------------------------------------------------------
(* background/index.ts: upserts with identifier upgrade *)

\* the correlation key compared by the upgrade: value.toLowerCase().trim()
Normalize(value) == Trim(ToLowerCase(value.str))

\* data.<type>.findIndex(item => item[key] && item[key].toLowerCase().trim() === wanted)
IndexOfKey(records, key, wanted) ==
    LET hit(i) == /\ Truthy(Get(records[i], key))
                  /\ Normalize(records[i][key]) = wanted
    IN  IF \E i \in DOMAIN records : hit(i)
        THEN CHOOSE i \in DOMAIN records : hit(i) /\ \A j \in 1..(i - 1) : ~hit(j)
        ELSE 0

\* existingIndex of one incoming record: by id, else for a real id by correlation key
ExistingIndex(records, prefix, key, record) ==
    LET byId == IndexOfId(records, Get(record, "id"))
    IN  IF byId = 0 /\ MatchesRealId(prefix, Get(record, "id")) /\ Truthy(Get(record, key))
        THEN IndexOfKey(records, key, Normalize(record[key]))
        ELSE byId

\* one turn of the loop of the matching upserts
UpsertMatchingOne(records, prefix, key, record) ==
    LET existingIndex == ExistingIndex(records, prefix, key, record)
    IN  IF existingIndex # 0
        THEN [records EXCEPT ![existingIndex] = MergeRecord(records[existingIndex], record)]
        ELSE Append(records, record)

RECURSIVE UpsertMatchingAll(_, _, _, _)
UpsertMatchingAll(records, prefix, key, incoming) ==
    IF incoming = <<>> THEN records
    ELSE UpsertMatchingAll(UpsertMatchingOne(records, prefix, key, Head(incoming)),
                           prefix, key, Tail(incoming))

\* the locked body of upsertOpportunitiesWithNameMatching(records)
upsertOpportunitiesWithNameMatching(data, records, time) ==
    [data EXCEPT !.opportunities = UpsertMatchingAll(@, OPP, "name", records),
                 !.lastSync = time]

\* the locked body of upsertActivitiesWithSummaryMatching(records)
upsertActivitiesWithSummaryMatching(data, records, time) ==
    [data EXCEPT !.activities = UpsertMatchingAll(@, ACT, "summary", records),
                 !.lastSync = time]

----------------------------------------------------------------------------
(* content/extractors/opportunityExtractor.ts: provisional identifiers *)

Base36 == <<"0", "1", "2", "3", "4", "5", "6", "7", "8", "9",
            "a", "b", "c", "d", "e", "f", "g", "h", "i", "j", "k", "l", "m",
            "n", "o", "p", "q", "r", "s", "t", "u", "v", "w", "x", "y", "z">>

\* String.prototype.charCodeAt for the characters a lower-cased content holds
CharCode(c) ==
    IF \E i \in DOMAIN Base36 : Base36[i] = c
    THEN LET i == CHOOSE j \in DOMAIN Base36 : Base36[j] = c
         IN  IF i <= 10 THEN 47 + i ELSE 86 + i
    ELSE IF c = "|" THEN 124
    ELSE IF c = "_" THEN 95
    ELSE IF c = "." THEN 46
    ELSE 32

\* String(n) of a natural number
RECURSIVE NumToString(_)
NumToString(n) ==
    IF n < 10 THEN <<Base36[n + 1]>>
    ELSE NumToString(n \div 10) \o <<Base36[(n % 10) + 1]>>

\* String(p).trim().toLowerCase() of one part
PartToString(p) == IF IsNum(p) THEN NumToString(p.num) ELSE Trim(ToLowerCase(p.str))

\* parts.map(...).join('|')
RECURSIVE JoinParts(_)
JoinParts(parts) ==
    IF parts = <<>> THEN <<>>
    ELSE IF Len(parts) = 1 THEN PartToString(parts[1])
    ELSE PartToString(parts[1]) \o <<"|">> \o JoinParts(Tail(parts))

\* djb2 on 32 bits, the hash kept as two 16-bit halves <<high, low>>:
\* hash = ((hash << 5) + hash) + content.charCodeAt(i); hash = hash & hash
Djb2Step(hash, code) ==
    LET low == hash[2] * 33 + code
    IN  <<(hash[1] * 33 + (low \div 65536)) % 65536, low % 65536>>

RECURSIVE Djb2(_, _)
Djb2(hash, content) ==
    IF content = <<>> THEN hash
    ELSE Djb2(Djb2Step(hash, CharCode(Head(content))), Tail(content))

\* (hash >>> 0).toString(36)
RECURSIVE ToBase36(_)
ToBase36(hash) ==
    LET mid  == (hash[1] % 36) * 65536 + hash[2]
        quot == <<hash[1] \div 36, mid \div 36>>
        unit == <<Base36[(mid % 36) + 1]>>
    IN  IF quot = <<0, 0>> THEN unit ELSE ToBase36(quot) \o unit

\* generateContentHash(prefix, ...parts); 5381 is the seed <<0, 5381>>
generateContentHash(prefix, parts) ==
    Str(prefix \o ToBase36(Djb2(<<0, 5381>>, JoinParts(parts))))

\* `${prefix}${value}` for a number or a string
Template(prefix, value) ==
    Str(prefix \o (IF IsNum(value) THEN NumToString(value.num)
                   ELSE IF IsStr(value) THEN value.str ELSE <<>>))

EmptyCache == [name \in {} |-> 0]

\* normalizeOpportunityName: name.trim().toLowerCase()
normalizeOpportunityName(name) == ToLowerCase(Trim(name))

\* lookupOpportunityId(name): the cached number, 0 for the code's null
lookupOpportunityId(cache, name) ==
    IF normalizeOpportunityName(name) \in DOMAIN cache
    THEN cache[normalizeOpportunityName(name)]
    ELSE 0

\* setOpportunityId(name, id): the first writer of a name wins
setOpportunityId(cache, name, id) ==
    IF normalizeOpportunityName(name) \in DOMAIN cache THEN cache
    ELSE [k \in DOMAIN cache \cup {normalizeOpportunityName(name)} |->
            IF k \in DOMAIN cache THEN cache[k] ELSE id]

\* extractOpportunityFromRow: a list row gives name, revenue and stage; the id is the
\* cached Odoo id of the name, else the content hash of name, stage and revenue
extractOpportunityFromRow(row, cache) ==
    LET realId == lookupOpportunityId(cache, row.name)
    IN  [id          |-> IF realId # 0 THEN Template(OPP, Num(realId))
                         ELSE generateContentHash(OPP, <<Str(row.name), Str(row.stage),
                                                         Num(row.revenue)>>),
         name        |-> Str(row.name),
         revenue     |-> Num(row.revenue),
         stage       |-> Str(row.stage),
         probability |-> Num(0),
         closeDate   |-> EMPTY]

----------------------------------------------------------------------------
(* content/index.ts: conversion of intercepted Odoo records *)

FALSE_VALUE == [bool |-> FALSE]
Pair(id, label) == [pair |-> <<Num(id), Str(label)>>]
IsPair(v) == DOMAIN v = {"pair"}

\* sanitizeOdooValue(value, defaultValue)
sanitizeOdooValue(value, defaultValue) ==
    IF value = FALSE_VALUE \/ value = NULL \/ value = UNDEFINED
    THEN defaultValue ELSE value

\* a ?? b
Coalesce(a, b) == IF a = NULL \/ a = UNDEFINED THEN b ELSE a

STAGE == <<"S", "t", "a", "g", "e", " ">>

\* convertToOpportunity(record)
convertToOpportunity(record) ==
    LET stageValue == Get(record, "stage_id")
        stageName ==
            IF IsPair(stageValue) THEN stageValue.pair[2]
            ELSE IF IsStr(stageValue) THEN stageValue
            ELSE IF IsNum(stageValue) THEN Template(STAGE, stageValue)
            ELSE EMPTY
    IN  [id          |-> Template(OPP, sanitizeOdooValue(Get(record, "id"), EMPTY)),
         name        |-> sanitizeOdooValue(Get(record, "name"), EMPTY),
         revenue     |-> sanitizeOdooValue(
                             Coalesce(Get(record, "expected_revenue"), Get(record, "revenue")),
                             Num(0)),
         stage       |-> stageName,
         probability |-> sanitizeOdooValue(Get(record, "probability"), Num(0)),
         closeDate   |-> sanitizeOdooValue(
                             Coalesce(Get(record, "date_deadline"), Get(record, "closeDate")),
                             EMPTY)]

\* String.prototype.includes
Includes(s, sub) ==
    \E i \in 1..(Len(s) - Len(sub) + 1) : SubSeq(s, i, i + Len(sub) - 1) = sub

TODO == <<"t", "o", "d", "o">>
CALL == <<"c", "a", "l", "l">>
MEETING == <<"m", "e", "e", "t", "i", "n", "g">>
EMAIL == <<"e", "m", "a", "i", "l">>
OPEN == <<"o", "p", "e", "n">>
DONE == <<"d", "o", "n", "e">>

\* convertToActivity(record)
convertToActivity(record) ==
    LET activityType == Get(record, "activity_type_id")
        typeLabel == IF IsPair(activityType) THEN ToLowerCase(activityType.pair[2].str)
                     ELSE <<>>
        typeName == IF Includes(typeLabel, CALL) THEN CALL
                    ELSE IF Includes(typeLabel, MEETING) THEN MEETING
                    ELSE IF Includes(typeLabel, EMAIL) THEN EMAIL
                    ELSE TODO
        activityUserId == IF Truthy(Get(record, "activity_user_id"))
                             \/ IsPair(Get(record, "activity_user_id"))
                          THEN Get(record, "activity_user_id")
                          ELSE Get(record, "user_id")
    IN  [id         |-> Template(ACT, sanitizeOdooValue(Get(record, "id"), EMPTY)),
         type       |-> Str(typeName),
         summary    |-> sanitizeOdooValue(Get(record, "summary"),
                                          sanitizeOdooValue(Get(record, "note"), EMPTY)),
         dueDate    |-> sanitizeOdooValue(Get(record, "date_deadline"), EMPTY),
         assignedTo |-> IF IsPair(activityUserId) THEN activityUserId.pair[2] ELSE EMPTY,
         status     |-> IF Get(record, "state") = Str(DONE) THEN Str(DONE) ELSE Str(OPEN)]

----------------------------------------------------------------------------
(* The source application and the inputs the handlers receive *)

MaxRecords == 2     \* entries the three collections hold together
MaxBatch == 2       \* records of one message

\* rows of the opportunity list view; odooId is the lead's identifier in Odoo, which
\* the page does not show
LeadRows ==
    {[odooId |-> 1, name |-> <<"A", "b">>, stage |-> <<"N">>, revenue |-> 500],
     [odooId |-> 2, name |-> <<"a", "b">>, stage |-> <<"W">>, revenue |-> 0]}

\* crm.lead records of intercepted web_save calls: a full edit of lead 1, an edit of
\* lead 1 answered with the id alone (args carry only the changed stage), lead 2
LeadSaves ==
    {[id |-> Num(1), name |-> Str(<<"A", "b", " ">>), expected_revenue |-> Num(900),
      stage_id |-> Pair(2, <<"W">>), probability |-> Num(50), date_deadline |-> FALSE_VALUE],
     [id |-> Num(1), stage_id |-> Num(3)],
     [id |-> Num(2), name |-> Str(<<"a", "b">>), expected_revenue |-> Num(0),
      stage_id |-> Pair(1, <<"N">>)]}

\* mail.activity records of intercepted web_save calls
ActivitySaves ==
    {[id |-> Num(1), summary |-> Str(<<"X", "a">>), activity_type_id |-> Pair(2, <<"C", "a", "l", "l">>),
      state |-> Str(DONE)],
     [id |-> Num(1), date_deadline |-> Str(<<"d">>)],
     [id |-> Num(2), summary |-> Str(<<" ", "x", "a">>)]}

\* what a scan of the activity list gives for its one row: the positional cache
\* missed (content hash) or hit (act_1)
ActivityCandidates ==
    LET row(id) == [id |-> id, type |-> Str(CALL), summary |-> Str(<<"X", "a">>),
                    dueDate |-> EMPTY, assignedTo |-> EMPTY, status |-> Str(OPEN)]
    IN  {row(generateContentHash(ACT, <<Str(<<"X", "a">>), Str(CALL)>>)),
         row(Template(ACT, Num(1)))}

\* contacts as messages carry them: a converted res.partner record, a record with
\* only some properties, one with null and undefined values, a rename, a second contact
ContactRecords ==
    LET id(n) == Template(CONTACT, Num(n))
    IN  {[id |-> id(1), name |-> Str(<<"J", "n">>), email |-> Str(<<"j", "x">>), phone |-> EMPTY],
         [id |-> id(1), phone |-> Str(<<"5", "5">>)],
         [id |-> id(1), name |-> NULL, email |-> UNDEFINED, phone |-> EMPTY],
         [id |-> id(1), name |-> Str(<<"J", "o">>), email |-> EMPTY, phone |-> Str(<<"5", "6">>)],
         [id |-> id(2), name |-> Str(<<"J", "n">>), email |-> EMPTY, phone |-> EMPTY]}

\* what a scan of the contact list gives: the avatar shows the partner id, or the
\* row has no avatar and is numbered by position (contact_idx_0)
ContactCandidates ==
    {[id |-> Template(CONTACT, Num(1)), name |-> Str(<<"J", "n">>), email |-> EMPTY,
      phone |-> Str(<<"5", "5">>)],
     [id |-> Str(CONTACT \o <<"i", "d", "x", "_", "0">>), name |-> Str(<<"J", "o">>),
      email |-> EMPTY, phone |-> EMPTY]}

\* the identifier caches a scan may run with: none yet, or the name of lead 1 learnt
LearntCache == setOpportunityId(EmptyCache, <<"A", "b">>, 1)
ScanCaches == {EmptyCache, LearntCache}

OpportunityCandidates ==
    {extractOpportunityFromRow(row, cache) : row \in LeadRows, cache \in ScanCaches}

\* non-empty sequences of at most MaxBatch elements of a set
Batches(S) == UNION {[1..n -> S] : n \in 1..MaxBatch}

\* EXTRACTION_COMPLETE carries the candidates of the one model the page shows
Candidates(type) ==
    IF type = "contacts" THEN ContactCandidates
    ELSE IF type = "opportunities" THEN OpportunityCandidates
    ELSE ActivityCandidates

\* ODOO_RPC_UPSERT carries converted records
Upserts(type) ==
    IF type = "contacts" THEN ContactRecords
    ELSE IF type = "opportunities" THEN {convertToOpportunity(r) : r \in LeadSaves}
    ELSE {convertToActivity(r) : r \in ActivitySaves}

\* every id a message may name
Ids(type) == {Get(r, "id") : r \in Candidates(type) \cup Upserts(type)}

\* the opportunities of one traversal: the cache only grows, so the rows read before
\* it learnt the name (the first k) come before those read after
OpportunityScans ==
    UNION {{[i \in 1..n |-> extractOpportunityFromRow(
                                rows[i], IF i <= k THEN EmptyCache ELSE LearntCache)] :
            rows \in [1..n -> LeadRows], k \in 0..n} : n \in 1..MaxBatch}

\* the batches an EXTRACTION_COMPLETE, an ODOO_RPC_UPSERT and an ODOO_RPC_DELETE carry
SaveBatches ==
    [type \in RecordTypes |->
        IF type = "opportunities" THEN OpportunityScans ELSE Batches(Candidates(type))]
UpsertBatches == [type \in RecordTypes |-> Batches(Upserts(type))]
DeleteBatches ==
    [type \in RecordTypes |->
        {ids \in SUBSET Ids(type) : ids # {} /\ Cardinality(ids) <= MaxBatch}]
MessageIds == [type \in RecordTypes |-> Ids(type)]

Size(data) == Len(data.contacts) + Len(data.opportunities) + Len(data.activities)

NoLock == [id |-> <<"", 0>>, timestamp |-> -1]

----------------------------------------------------------------------------
(* content/index.ts, handleRpcSignal, and content/idCache.ts: what an intercepted   *)
(* request does to the identifier caches and what it sends to the worker            *)

MaxSignals == 3     \* intercepted requests the content script handles

\* extractMany2oneName(value)
extractMany2oneName(value) ==
    IF IsPair(value) THEN value.pair[2]
    ELSE IF IsStr(value) THEN value
    ELSE EMPTY

\* a || b on strings
OrElse(a, b) == IF Truthy(a) THEN a ELSE b

\* convertToContact(record)
convertToContact(record) ==
    [id          |-> Template(CONTACT, sanitizeOdooValue(Get(record, "id"), EMPTY)),
     name        |-> OrElse(sanitizeOdooValue(Get(record, "name"), EMPTY),
                            sanitizeOdooValue(Get(record, "display_name"), EMPTY)),
     email       |-> sanitizeOdooValue(Get(record, "email"), EMPTY),
     phone       |-> sanitizeOdooValue(Get(record, "phone"),
                                       sanitizeOdooValue(Get(record, "mobile"), EMPTY)),
     company     |-> OrElse(OrElse(sanitizeOdooValue(Get(record, "company_name"), EMPTY),
                                   extractMany2oneName(Get(record, "parent_id"))),
                            sanitizeOdooValue(Get(record, "parent_name"), EMPTY)),
     salesperson |-> extractMany2oneName(Get(record, "user_id"))]

Models == {"res.partner", "crm.lead", "mail.activity", "mail.activity.schedule"}

\* mapModelToDataType(model)
mapModelToDataType(model) ==
    IF model = "res.partner" THEN "contacts"
    ELSE IF model = "crm.lead" THEN "opportunities"
    ELSE IF model \in {"mail.activity", "mail.activity.schedule"} THEN "activities"
    ELSE "null"

\* convertRecord(dataType, record)
convertRecord(dataType, record) ==
    IF dataType = "contacts" THEN convertToContact(record)
    ELSE IF dataType = "opportunities" THEN convertToOpportunity(record)
    ELSE convertToActivity(record)

\* a populate under which the last record of a name wins
RECURSIVE populateOpportunityIdCacheLastWins(_, _)
populateOpportunityIdCacheLastWins(cache, records) ==
    IF records = <<>> THEN cache
    ELSE LET record == Head(records)
             key == normalizeOpportunityName(record.name.str)
             next == IF Truthy(Get(record, "id")) /\ Truthy(Get(record, "name"))
                     THEN [k \in DOMAIN cache \cup {key} |->
                             IF k = key THEN record.id.num ELSE cache[k]]
                     ELSE cache
         IN  populateOpportunityIdCacheLastWins(next, Tail(records))

\* populateOpportunityIdCache(records): a record with id and name enters under its
\* normalized name unless the name is there
RECURSIVE populateOpportunityIdCache(_, _)
populateOpportunityIdCache(cache, records) ==
    IF records = <<>> THEN cache
    ELSE LET record == Head(records)
             key == normalizeOpportunityName(record.name.str)
             next == IF Truthy(Get(record, "id")) /\ Truthy(Get(record, "name"))
                        /\ key \notin DOMAIN cache
                     THEN [k \in DOMAIN cache \cup {key} |->
                             IF k = key THEN record.id.num ELSE cache[k]]
                     ELSE cache
         IN  populateOpportunityIdCache(next, Tail(records))

\* lookupActivityId(rowIndex), rowIndex counted from 0: 0 for the code's null
lookupActivityId(activityIdArray, rowIndex) ==
    IF rowIndex >= 0 /\ rowIndex < Len(activityIdArray)
    THEN activityIdArray[rowIndex + 1] ELSE 0

\* populateActivityIdCache(records): the array is replaced by the ids of the records
RECURSIVE populateActivityIdCache(_)
populateActivityIdCache(records) ==
    IF records = <<>> THEN <<>>
    ELSE (IF Truthy(Get(Head(records), "id")) THEN <<Head(records).id.num>> ELSE <<>>)
         \o populateActivityIdCache(Tail(records))

\* setActivityId(_summary, id): the id is appended unless the array holds it
setActivityId(activityIdArray, id) ==
    IF \E i \in DOMAIN activityIdArray : activityIdArray[i] = id THEN activityIdArray
    ELSE Append(activityIdArray, id)

\* rows of bulk reads as Odoo answers them
PartnerRows ==
    {[id |-> Num(1), name |-> Str(<<"J", "n">>), email |-> Str(<<"j", "x">>),
      phone |-> FALSE_VALUE, parent_id |-> FALSE_VALUE, user_id |-> Pair(2, <<"A">>)],
     [id |-> Num(2), name |-> Str(<<"J", "o">>), email |-> FALSE_VALUE,
      phone |-> Str(<<"5", "5">>)]}
LeadReadRows == {r \in LeadSaves : "name" \in DOMAIN r}
ActivityRows == {r \in ActivitySaves : "summary" \in DOMAIN r}

RowsOf(model) ==
    IF model = "res.partner" THEN PartnerRows
    ELSE IF model = "crm.lead" THEN LeadReadRows
    ELSE IF model = "mail.activity" THEN ActivityRows
    ELSE {}

\* create / web_save requests: args[0] (ids), args[1] (fieldData) and the result
SavesOf(model) ==
    IF model = "crm.lead" THEN
        {[ids |-> <<1>>, fieldData |-> [stage_id |-> Num(2)], result |-> <<r>>] :
            r \in LeadReadRows}
        \cup {[ids |-> <<1>>, fieldData |-> [stage_id |-> Num(3)],
               result |-> <<[id |-> Num(1)]>>],
              [ids |-> <<>>,
               fieldData |-> [name |-> Str(<<"a", "b">>), expected_revenue |-> Num(0),
                              stage_id |-> Num(1)],
               result |-> <<[id |-> Num(2)]>>]}
    ELSE IF model = "mail.activity" THEN
        {[ids |-> <<1>>, fieldData |-> [date_deadline |-> Str(<<"d">>)], result |-> <<r>>] :
            r \in ActivityRows}
        \cup {[ids |-> <<1>>, fieldData |-> [date_deadline |-> Str(<<"d">>)],
               result |-> <<[id |-> Num(1)]>>]}
    ELSE IF model = "mail.activity.schedule" THEN
        {[ids |-> <<>>,
          fieldData |-> [summary |-> Str(<<"X", "a">>),
                         activity_type_id |-> Pair(2, <<"C", "a", "l", "l">>)],
          result |-> <<[id |-> Num(7)]>>]}
    ELSE {[ids |-> <<1>>, fieldData |-> [email |-> Str(<<"j", "x">>)], result |-> <<r>>] :
            r \in PartnerRows}

NoSignal == [model |-> "none", method |-> "none", rows |-> <<>>]

\* the content script before any intercepted request
NoRpc == [activityIdArray |-> <<>>, sent |-> <<>>, signal |-> NoSignal, count |-> 0,
          pageRows |-> <<>>, bulkRead |-> FALSE]

NoMessage == [action |-> "none"]
NoSnapshot == [lastSync |-> -1]

\* the worker before any message
NoWorker ==
    [pc |-> "idle", message |-> NoMessage, reply |-> [success |-> FALSE, error |-> "none"],
     lock |-> "none", responses |-> <<>>, pending |-> 0, emitted |-> NoSnapshot,
     version |-> 0, emittedVersion |-> 0, handled |-> 0]

\* no DOM watcher: globalWatcher is null. observer and debounceTimer are the fields
\* of the DOMWatcher (0 for a null timer, else the time it is due); the rest counts
\* what happened since the watcher was started
NoWatcher ==
    [observer |-> FALSE, debounceTimer |-> 0, calls |-> 0, lastChange |-> 0,
     changes |-> 0, bursts |-> 0, armed |-> 0, seen |-> "none"]

----------------------------------------------------------------------------
(* content/index.ts and content/pagination.ts: one tab's extraction guard and its  *)
(* traversal of a paginated list                                                    *)

MaxSourcePages == 3     \* pages of the short lists a tab may show

maxPages == 50
maxAttempts == 50
PageSize == 50

storeVars == <<local, session, now, last, supplied, procs, idCache, scanned, ticks, rpc, worker, watcher>>

\* the lists a tab may show. "wrap": the pager shows its range and total, 'next' on
\* the last page leads to the first; "stop": the same, 'next' is disabled on the last
\* page; "short": as "wrap", the total shown exceeds the rows; "blind": no pager
\* text, 'next' never disables; "bare": neither pager nor 'next'
SourcePages == (1..MaxSourcePages) \cup {maxPages, maxPages + 1}
Sources ==
    [kind : {"wrap", "stop", "short"}, pages : SourcePages]
    \cup [kind : {"blind"}, pages : 1..MaxSourcePages]
    \cup [kind : {"bare"}, pages : {1}]

NoInfo == [total |-> -1, currentStart |-> -1, currentEnd |-> -1]

\* getCurrentPageInfo() on the page shown
getCurrentPageInfo(source, page) ==
    IF source.kind \in {"blind", "bare"} THEN NoInfo
    ELSE [total        |-> source.pages * PageSize + (IF source.kind = "short" THEN 1 ELSE 0),
          currentStart |-> (page - 1) * PageSize + 1,
          currentEnd   |-> page * PageSize]

\* getNextButton() on the page shown: the control exists and is not disabled
getNextButton(source, page) ==
    /\ source.kind # "bare"
    /\ source.kind = "stop" => page < source.pages

\* the page shown after nextButton.click() and waitForPageLoad
NextPage(source, page) == IF page < source.pages THEN page + 1 ELSE 1

\* a traversal that starts on the page shown
navigateToFirstPageStays(source, page) == page

\* navigateToFirstPage: nothing without pager text or on the first page, else one
\* click on 'previous' per attempt
navigateToFirstPage(source, page) ==
    IF getCurrentPageInfo(source, page) = NoInfo \/ page = 1 THEN page
    ELSE IF page - 1 <= maxAttempts THEN 1
    ELSE page - maxAttempts

NoTrigger == [kind |-> "none", outcome |-> "none"]

\* the content script of a tab showing `page` of `source`, no run active
IdleTab(source, page, dataModel) ==
    [isExtracting |-> FALSE, pc |-> "idle", source |-> source, page |-> page,
     dataModel |-> dataModel, pageCount |-> 0, visitedRanges |-> {},
     pageInfo |-> NoInfo, reads |-> <<>>, trigger |-> NoTrigger, result |-> "none",
     active |-> 0]

\* a tab whose content script has not been asked for anything
NoTab == IdleTab([kind |-> "bare", pages |-> 1], 1, "unknown")

TabInit ==
    /\ local = DEFAULT_DATA
    /\ session = NoLock
    /\ now = 1
    /\ last = [op |-> "none", type |-> "contacts", records |-> <<>>, ids |-> {},
               before |-> DEFAULT_DATA]
    /\ supplied = [ok |-> FALSE, vals |-> EmptyCache]
    /\ procs = <<>>
    /\ idCache = EmptyCache
    /\ scanned = <<>>
    /\ ticks = 0
    /\ \E source \in Sources : \E page \in {1, 2, source.pages} :
        \E dataModel \in {"crm.lead", "unknown"} :
            /\ page <= source.pages
            /\ tab = IdleTab(source, page, dataModel)
    /\ rpc = NoRpc
    /\ worker = NoWorker
    /\ watcher = NoWatcher

\* a run is between handleExtraction's isExtracting = true and its finally
RunActive == tab.pc # "idle"

\* a content script without the isExtracting test: every trigger starts a run
TriggerUnguarded(kind) ==
    /\ tab' = [IdleTab(tab.source, tab.page, tab.dataModel) EXCEPT
                 !.isExtracting = TRUE, !.pc = "render", !.active = tab.active + 1,
                 !.trigger = [kind |-> kind, outcome |-> "started"]]
    /\ UNCHANGED storeVars

\* EXTRACT_DATA from the popup, or the DOM watcher's callback. While a run is
\* active handleExtraction answers the popup with a failure and the watcher's
\* callback returns; the callback also returns on a page that is no Odoo list.
\* Otherwise handleExtraction sets the flag and waits for Odoo to render.
Trigger(kind) ==
    /\ tab' =
         IF tab.isExtracting
         THEN [tab EXCEPT !.trigger = [kind |-> kind,
                             outcome |-> IF kind = "manual" THEN "failure" ELSE "skipped"]]
         ELSE IF kind = "auto" /\ tab.dataModel = "unknown"
         THEN [tab EXCEPT !.trigger = [kind |-> kind, outcome |-> "skipped"]]
         ELSE [IdleTab(tab.source, tab.page, tab.dataModel) EXCEPT
                 !.isExtracting = TRUE, !.pc = "render", !.active = tab.active + 1,
                 !.trigger = [kind |-> kind, outcome |-> "started"]]
    /\ UNCHANGED storeVars

\* waitForOdooRender returned: a list of a tracked model is traversed, after
\* applyStableSort, from its first page; any other page has nothing to read
Rendered ==
    /\ tab.pc = "render"
    /\ tab' = IF tab.dataModel = "unknown" THEN [tab EXCEPT !.pc = "send"]
              ELSE [tab EXCEPT !.pc = "loop", !.pageCount = 1,
                               !.page = navigateToFirstPage(tab.source, tab.page)]
    /\ UNCHANGED storeVars

\* a loop that keeps no account of the ranges it has read
LoopTopForgetsRanges ==
    /\ tab.pc = "loop"
    /\ tab' = IF tab.pageCount > maxPages THEN [tab EXCEPT !.pc = "send"]
              ELSE [tab EXCEPT !.pc = "extract",
                               !.pageInfo = getCurrentPageInfo(tab.source, tab.page)]
    /\ UNCHANGED storeVars

\* a loop whose only exits are those after the page reader
LoopTopNoExit ==
    /\ tab.pc = "loop"
    /\ tab' = [tab EXCEPT !.pc = "extract",
                          !.pageInfo = getCurrentPageInfo(tab.source, tab.page)]
    /\ UNCHANGED storeVars

\* extractWithPagination, top of the loop: the ceiling, then the range of the page
\* shown against the ranges visited, then the call of the page reader
LoopTop ==
    /\ tab.pc = "loop"
    /\ LET pageInfo == getCurrentPageInfo(tab.source, tab.page)
           rangeKey == <<pageInfo.currentStart, pageInfo.currentEnd>>
       IN  tab' =
             IF tab.pageCount > maxPages THEN [tab EXCEPT !.pc = "send"]
             ELSE IF pageInfo # NoInfo /\ rangeKey \in tab.visitedRanges
             THEN [tab EXCEPT !.pc = "send"]
             ELSE [tab EXCEPT !.pc = "extract", !.pageInfo = pageInfo,
                              !.visitedRanges =
                                  IF pageInfo # NoInfo THEN @ \cup {rangeKey} ELSE @]
    /\ UNCHANGED storeVars

\* a traversal that gives up what it has collected when 'next' is missing
ExtractedThrowsOnStall ==
    /\ tab.pc = "extract"
    /\ tab' =
         LET read == [tab EXCEPT !.reads = Append(@, tab.page)]
         IN  IF tab.pageInfo # NoInfo /\ tab.pageInfo.currentEnd >= tab.pageInfo.total
             THEN [read EXCEPT !.pc = "send"]
             ELSE IF ~getNextButton(tab.source, tab.page)
             THEN [tab EXCEPT !.pc = "error", !.reads = <<>>]
             ELSE [read EXCEPT !.pc = "load", !.page = NextPage(tab.source, tab.page)]
    /\ UNCHANGED storeVars

\* the page reader returned: its rows are kept; the run stops when the page's end
\* reaches the total or there is no enabled 'next', else it clicks 'next'
Extracted ==
    /\ tab.pc = "extract"
    /\ tab' =
         LET read == [tab EXCEPT !.reads = Append(@, tab.page)]
         IN  IF tab.pageInfo # NoInfo /\ tab.pageInfo.currentEnd >= tab.pageInfo.total
             THEN [read EXCEPT !.pc = "send"]
             ELSE IF ~getNextButton(tab.source, tab.page) THEN [read EXCEPT !.pc = "send"]
             ELSE [read EXCEPT !.pc = "load", !.page = NextPage(tab.source, tab.page)]
    /\ UNCHANGED storeVars

\* waitForPageLoad returned: pageCount++
PageLoaded ==
    /\ tab.pc = "load"
    /\ tab' = [tab EXCEPT !.pc = "loop", !.pageCount = @ + 1]
    /\ UNCHANGED storeVars

\* EXTRACTION_COMPLETE was sent: handleExtraction returns success, its finally
\* clears the flag
Sent ==
    /\ tab.pc = "send"
    /\ tab' = [tab EXCEPT !.pc = "idle", !.isExtracting = FALSE, !.result = "success",
                          !.active = @ - 1]
    /\ UNCHANGED storeVars

\* something threw inside the run: the catch block sends EXTRACTION_ERROR
Thrown ==
    /\ tab.pc \in {"render", "loop", "extract", "load"}
    /\ tab' = [tab EXCEPT !.pc = "error"]
    /\ UNCHANGED storeVars

\* a catch block after which the flag stays set
ErrorSentKeepsFlag ==
    /\ tab.pc = "error"
    /\ tab' = [tab EXCEPT !.pc = "idle", !.result = "failure", !.active = @ - 1]
    /\ UNCHANGED storeVars

\* EXTRACTION_ERROR was sent or its send failed: handleExtraction returns the
\* failure, its finally clears the flag
ErrorSent ==
    /\ tab.pc = "error"
    /\ tab' = [tab EXCEPT !.pc = "idle", !.isExtracting = FALSE, !.result = "failure",
                          !.active = @ - 1]
    /\ UNCHANGED storeVars

RunStep == Rendered \/ LoopTop \/ Extracted \/ PageLoaded \/ Sent \/ ErrorSent

TabNext ==
    \/ \E kind \in {"manual", "auto"} : Trigger(kind)
    \/ Rendered
    \/ LoopTop
    \/ Extracted
    \/ PageLoaded
    \/ Sent
    \/ Thrown
    \/ ErrorSent

TabSpec == TabInit /\ [][TabNext]_vars

\* the timers and message replies a run waits for do arrive
TabFairSpec == TabSpec /\ WF_vars(RunStep)


----------------------------------------------------------------------------
(* Handlers run one at a time, each to completion *)

NoOp == [op |-> "none", type |-> "contacts", records |-> <<>>, ids |-> {},
         before |-> DEFAULT_DATA]

Untracked == [ok |-> FALSE, vals |-> EmptyCache]
Tracking(vals) == [ok |-> TRUE, vals |-> vals]

\* the values an upsert batch supplies, per id and property, later ones last
NonEmpty(v) == v \notin {EMPTY, NULL, UNDEFINED}

Supply(vals, record) ==
    LET id  == record.id
        old == IF id \in DOMAIN vals THEN vals[id] ELSE EmptyCache
        new == [k \in DOMAIN old \cup {k \in DOMAIN record : NonEmpty(record[k])} |->
                   IF k \in DOMAIN record /\ NonEmpty(record[k]) THEN record[k] ELSE old[k]]
    IN  [i \in DOMAIN vals \cup {id} |-> IF i = id THEN new ELSE vals[i]]

RECURSIVE SupplyAll(_, _)
SupplyAll(vals, records) ==
    IF records = <<>> THEN vals
    ELSE SupplyAll(Supply(vals, Head(records)), Tail(records))

SeqInit ==
    /\ local = DEFAULT_DATA
    /\ session = NoLock
    /\ now = 1
    /\ last = NoOp
    /\ supplied = Tracking(EmptyCache)
    /\ procs = <<>>
    /\ idCache = EmptyCache
    /\ scanned = <<>>
    /\ ticks = 0
    /\ tab = NoTab
    /\ rpc = NoRpc
    /\ worker = NoWorker
    /\ watcher = NoWatcher

Finish(op, type, records, ids, data) ==
    /\ Size(data) <= MaxRecords
    /\ local' = data
    /\ last' = [op |-> op, type |-> type, records |-> records, ids |-> ids, before |-> local]
    /\ UNCHANGED <<session, now, procs, idCache, scanned, ticks, tab, rpc, worker, watcher>>

\* handleExtractionComplete: acquireLock, saveData, releaseLock
RunExtractionComplete ==
    \E type \in RecordTypes : \E records \in SaveBatches[type] :
        /\ session = NoLock
        /\ Finish("saveData", type, records, {},
                  saveData(local,
                           IF type = "contacts" THEN records ELSE <<>>,
                           IF type = "opportunities" THEN records ELSE <<>>,
                           IF type = "activities" THEN records ELSE <<>>, now))
        /\ supplied' = IF type = "contacts" THEN Untracked ELSE supplied

\* handleRpcUpsert: the matching upserts for opportunities and activities,
\* upsertRecords for contacts
RunRpcUpsert ==
    \E type \in RecordTypes : \E records \in UpsertBatches[type] :
        /\ session = NoLock
        /\ Finish("upsert", type, records, {},
                  IF type = "opportunities"
                  THEN upsertOpportunitiesWithNameMatching(local, records, now)
                  ELSE IF type = "activities"
                  THEN upsertActivitiesWithSummaryMatching(local, records, now)
                  ELSE upsertRecords(local, type, records, now))
        /\ supplied' = IF type = "contacts" /\ supplied.ok
                       THEN Tracking(SupplyAll(supplied.vals, records))
                       ELSE supplied

\* handleRpcDelete: deleteRecordsById
RunRpcDelete ==
    \E type \in RecordTypes : \E ids \in DeleteBatches[type] :
        /\ session = NoLock
        /\ Finish("deleteRecordsById", type, <<>>, ids,
                  deleteRecordsById(local, type, ids, now))
        /\ supplied' = IF type = "contacts" THEN Untracked ELSE supplied

\* handleDeleteRecord: deleteRecord, no lock taken
RunDeleteRecord ==
    \E type \in RecordTypes : \E id \in MessageIds[type] :
        /\ Finish("deleteRecord", type, <<>>, {id}, deleteRecord(local, type, id))
        /\ supplied' = IF type = "contacts" THEN Untracked ELSE supplied

\* handleDeleteAllRecords: deleteAllRecords, no lock taken
RunDeleteAllRecords ==
    \E type \in RecordTypes :
        /\ Finish("deleteAllRecords", type, <<>>, {}, deleteAllRecords(local, type))
        /\ supplied' = IF type = "contacts" THEN Tracking(EmptyCache) ELSE supplied

SeqNext ==
    \/ RunExtractionComplete
    \/ RunRpcUpsert
    \/ RunRpcDelete
    \/ RunDeleteRecord
    \/ RunDeleteAllRecords

SeqSpec == SeqInit /\ [][SeqNext]_vars

----------------------------------------------------------------------------
(* shared/lock.ts and the handlers of background/index.ts, step by step: every    *)
(* await of chrome.storage is a point where another handler may run               *)

NumProcs == 2       \* messages the background worker handles
MaxTicks == 1       \* advances of the clock

LOCK_TIMEOUT_MS == 30000
MAX_WAIT_MS == 5000
POLL_MS == 100
ClockSteps == {POLL_MS, MAX_WAIT_MS, LOCK_TIMEOUT_MS}

Procs == 1..NumProcs

IdleProc ==
    [pc |-> "idle", op |-> "none", type |-> "contacts", records |-> <<>>,
     lockId |-> <<"", 0>>, lockData |-> NoLock, existing |-> DEFAULT_DATA,
     startTime |-> 0, wakeAt |-> 0, acquired |-> FALSE, acquiredAt |-> 0,
     result |-> "none", ids |-> {}, polls |-> 0, wrote |-> FALSE]

\* parseInt(digits, 10)
RECURSIVE ParseInt(_)
ParseInt(digits) ==
    IF digits = <<>> THEN 0
    ELSE 10 * ParseInt(SubSeq(digits, 1, Len(digits) - 1))
         + (CHOOSE d \in 0..9 : Base36[d + 1] = digits[Len(digits)])

\* initializeOpportunityIdCacheFromStorage: stored entries with an id opp_<digits>
\* and a name enter the cache, the first of a name wins
RECURSIVE initializeOpportunityIdCacheFromStorage(_, _)
initializeOpportunityIdCacheFromStorage(cache, opportunities) ==
    IF opportunities = <<>> THEN cache
    ELSE LET opp == Head(opportunities)
             next == IF MatchesRealId(OPP, Get(opp, "id")) /\ Truthy(Get(opp, "name"))
                     THEN setOpportunityId(cache, opp.name.str,
                              ParseInt(SubSeq(opp.id.str, Len(OPP) + 1, Len(opp.id.str))))
                     ELSE cache
         IN  initializeOpportunityIdCacheFromStorage(next, Tail(opportunities))

\* the contacts two tabs report: the converted record of partner 1 and of partner 2
TabContacts == {r \in ContactRecords : Get(r, "name") = Str(<<"J", "n">>)}

Init ==
    /\ local = DEFAULT_DATA
    /\ session = NoLock
    /\ now = 1
    /\ last = NoOp
    /\ supplied = Untracked
    /\ procs = [p \in Procs |-> IdleProc]
    /\ idCache = EmptyCache
    /\ scanned = <<>>
    /\ ticks = 0
    /\ tab = NoTab
    /\ rpc = NoRpc
    /\ worker = NoWorker
    /\ watcher = NoWatcher

Running(p) == procs[p].pc \notin {"idle", "done"}

\* the k-th message is handled by process k
Arrives(p) == procs[p].pc = "idle" /\ \A q \in Procs : q < p => procs[q].pc # "idle"

\* a handler has answered: only its message and its answer are kept
Answer(q, result) ==
    [IdleProc EXCEPT !.pc = "done", !.op = q.op, !.type = q.type, !.records = q.records,
                     !.ids = q.ids, !.acquired = q.acquired, !.result = result]

\* time passes while a handler runs
Tick ==
    /\ ticks < MaxTicks
    /\ \E p \in Procs : Running(p)
    /\ \E d \in ClockSteps : now' = now + d
    /\ ticks' = ticks + 1
    /\ UNCHANGED <<local, session, last, supplied, procs, idCache, scanned, tab, rpc, worker, watcher>>

\* extractOpportunities on a page showing one lead: the cache is filled from the
\* store, the row is read, and the candidates wait to be sent
ExtractOpportunities ==
    /\ scanned = <<>>
    /\ \E row \in LeadRows :
        LET cache == initializeOpportunityIdCacheFromStorage(idCache, local.opportunities)
        IN  /\ idCache' = cache
            /\ scanned' = <<extractOpportunityFromRow(row, cache)>>
    /\ UNCHANGED <<local, session, now, last, supplied, procs, ticks, tab, rpc, worker, watcher>>

Begin(p, op, type, records, kind, pc) ==
    procs' = [procs EXCEPT ![p] =
                [IdleProc EXCEPT !.pc = pc, !.op = op, !.type = type, !.records = records,
                                 !.lockId = <<kind, now>>, !.startTime = now]]

\* EXTRACTION_COMPLETE arrives: handleExtractionComplete calls acquireLock
StartExtractionComplete(p) ==
    /\ Arrives(p)
    /\ scanned # <<>>
    /\ Begin(p, "saveData", "opportunities", scanned, "extraction", "lock_get")
    /\ scanned' = <<>>
    /\ UNCHANGED <<local, session, now, last, supplied, idCache, ticks, tab, rpc, worker, watcher>>

\* an intercepted web_save of a lead: handleRpcSignal caches the name, converts the
\* record and sends ODOO_RPC_UPSERT; upsertOpportunitiesWithNameMatching calls acquireLock
StartRpcUpsertOpportunity(p) ==
    /\ Arrives(p)
    /\ \E record \in LeadSaves :
        /\ idCache' = IF IsStr(Get(record, "name"))
                       THEN setOpportunityId(idCache, record.name.str, record.id.num)
                       ELSE idCache
        /\ Begin(p, "upsertOpportunitiesWithNameMatching", "opportunities",
                 <<convertToOpportunity(record)>>, "upsert_opportunities_name", "lock_get")
    /\ UNCHANGED <<local, session, now, last, supplied, scanned, ticks, tab, rpc, worker, watcher>>

\* ODOO_RPC_UPSERT for contacts: upsertRecords calls waitForLock
StartRpcUpsertContact(p) ==
    /\ Arrives(p)
    /\ \E record \in TabContacts :
        Begin(p, "upsertRecords", "contacts", <<record>>, "upsert_contacts", "lock_get")
    /\ UNCHANGED <<local, session, now, last, supplied, idCache, scanned, ticks, tab, rpc, worker, watcher>>

\* the contact a manual delete or an intercepted unlink names
DeletedContacts == {Template(CONTACT, Num(1))}

\* ODOO_RPC_DELETE for contacts: deleteRecordsById calls waitForLock
StartRpcDelete(p) ==
    /\ Arrives(p)
    /\ \E id \in DeletedContacts :
        procs' = [procs EXCEPT ![p] =
                    [IdleProc EXCEPT !.pc = "lock_get", !.op = "deleteRecordsById",
                                     !.ids = {id}, !.lockId = <<"delete_contacts", now>>,
                                     !.startTime = now]]
    /\ UNCHANGED <<local, session, now, last, supplied, idCache, scanned, ticks, tab, rpc, worker, watcher>>

\* DELETE_RECORD from the popup: deleteRecord calls getData at once
StartDeleteRecord(p) ==
    /\ Arrives(p)
    /\ \E id \in DeletedContacts :
        procs' = [procs EXCEPT ![p] =
                    [IdleProc EXCEPT !.pc = "read", !.op = "deleteRecord", !.ids = {id},
                                     !.startTime = now]]
    /\ UNCHANGED <<local, session, now, last, supplied, idCache, scanned, ticks, tab, rpc, worker, watcher>>

\* DELETE_ALL_RECORDS from the popup: deleteAllRecords calls getData at once
StartDeleteAllRecords(p) ==
    /\ Arrives(p)
    /\ procs' = [procs EXCEPT ![p] =
                    [IdleProc EXCEPT !.pc = "read", !.op = "deleteAllRecords",
                                     !.startTime = now]]
    /\ UNCHANGED <<local, session, now, last, supplied, idCache, scanned, ticks, tab, rpc, worker, watcher>>

\* the operations that ask for the write lock
Locking(op) == op \notin {"deleteRecord", "deleteAllRecords"}

\* acquireLock: await chrome.storage.session.get(LOCK_KEY)
LockGet(p) ==
    /\ procs[p].pc = "lock_get"
    /\ procs' = [procs EXCEPT ![p].pc = "lock_check", ![p].lockData = session,
                              ![p].polls = @ + 1]
    /\ UNCHANGED <<local, session, now, last, supplied, idCache, scanned, ticks, tab, rpc, worker, watcher>>

\* the staleness test with the bound on the wrong side
HeldFreshInclusive(currentLock, time) ==
    currentLock # NoLock /\ time - currentLock.timestamp <= LOCK_TIMEOUT_MS

\* the lock read is held and younger than the timeout
HeldFresh(currentLock, time) ==
    currentLock # NoLock /\ time - currentLock.timestamp < LOCK_TIMEOUT_MS

\* acquireLock after the read: return false on a fresh lock, else write the token.
\* On false upsertRecords and deleteRecordsById sleep in waitForLock, the matching
\* upsert throws, and
\* handleExtractionComplete returns a failure through its finally (releaseLock)
LockCheck(p) ==
    /\ procs[p].pc = "lock_check"
    /\ IF HeldFresh(procs[p].lockData, now)
       THEN /\ procs' = [procs EXCEPT ![p] =
                  IF @.op \in {"upsertRecords", "deleteRecordsById"}
                  THEN [@ EXCEPT !.pc = "sleep", !.wakeAt = now + POLL_MS]
                  ELSE IF @.op = "saveData" THEN [@ EXCEPT !.pc = "release_get"]
                  ELSE Answer(@, "failure")]
            /\ UNCHANGED session
       ELSE /\ session' = [id |-> procs[p].lockId, timestamp |-> now]
            /\ procs' = [procs EXCEPT ![p].pc = "read", ![p].acquired = TRUE,
                                      ![p].acquiredAt = now]
    /\ UNCHANGED <<local, now, last, supplied, idCache, scanned, ticks, tab, rpc, worker, watcher>>

\* a waitForLock whose loop has no time limit
WaitWakeAlwaysRetries(p) ==
    /\ procs[p].pc = "sleep"
    /\ now >= procs[p].wakeAt
    /\ procs' = [procs EXCEPT ![p].pc = "lock_get"]
    /\ UNCHANGED <<local, session, now, last, supplied, idCache, scanned, ticks, tab, rpc, worker, watcher>>

\* waitForLock: the 100 ms timer fired; poll again while less than maxWaitMs have
\* passed, else return false (upsertRecords and deleteRecordsById throw)
WaitWake(p) ==
    /\ procs[p].pc = "sleep"
    /\ now >= procs[p].wakeAt
    /\ procs' = [procs EXCEPT ![p] =
          IF now - @.startTime < MAX_WAIT_MS THEN [@ EXCEPT !.pc = "lock_get"]
          ELSE Answer(@, "failure")]
    /\ UNCHANGED <<local, session, now, last, supplied, idCache, scanned, ticks, tab, rpc, worker, watcher>>

\* await getData()
Read(p) ==
    /\ procs[p].pc = "read"
    /\ procs' = [procs EXCEPT ![p].pc = "write", ![p].existing = local]
    /\ UNCHANGED <<local, session, now, last, supplied, idCache, scanned, ticks, tab, rpc, worker, watcher>>

\* what the handler writes, computed from what it read
Written(p) ==
    LET q == procs[p]
    IN  IF q.op = "saveData" THEN saveData(q.existing, <<>>, q.records, <<>>, now)
        ELSE IF q.op = "upsertOpportunitiesWithNameMatching"
        THEN upsertOpportunitiesWithNameMatching(q.existing, q.records, now)
        ELSE IF q.op = "deleteRecordsById"
        THEN deleteRecordsById(q.existing, q.type, q.ids, now)
        ELSE IF q.op = "deleteRecord"
        THEN deleteRecord(q.existing, q.type, CHOOSE id \in q.ids : TRUE)
        ELSE IF q.op = "deleteAllRecords" THEN deleteAllRecords(q.existing, q.type)
        ELSE upsertRecords(q.existing, q.type, q.records, now)

\* await chrome.storage.local.set(...): the locking operations go on to releaseLock,
\* deleteRecord and deleteAllRecords return
Write(p) ==
    /\ procs[p].pc = "write"
    /\ local' = Written(p)
    /\ Size(local') <= MaxRecords
    /\ procs' = [procs EXCEPT ![p] =
                    IF Locking(@.op)
                    THEN [@ EXCEPT !.pc = "release_get", !.existing = DEFAULT_DATA,
                                   !.wrote = TRUE]
                    ELSE Answer(@, "success")]
    /\ UNCHANGED <<session, now, last, supplied, idCache, scanned, ticks, tab, rpc, worker, watcher>>

\* await chrome.storage.local.set(...) rejects: nothing is written; the finally
\* block of a locking operation runs releaseLock, and the handler answers with the
\* failure
WriteFails(p) ==
    /\ procs[p].pc = "write"
    /\ procs' = [procs EXCEPT ![p] =
                    IF Locking(@.op)
                    THEN [@ EXCEPT !.pc = "release_get", !.existing = DEFAULT_DATA,
                                   !.result = "threw"]
                    ELSE Answer(@, "failure")]
    /\ UNCHANGED <<local, session, now, last, supplied, idCache, scanned, ticks, tab, rpc, worker, watcher>>

\* releaseLock: await chrome.storage.session.get(LOCK_KEY)
ReleaseGet(p) ==
    /\ procs[p].pc = "release_get"
    /\ procs' = [procs EXCEPT ![p].pc = "release_check", ![p].lockData = session]
    /\ UNCHANGED <<local, session, now, last, supplied, idCache, scanned, ticks, tab, rpc, worker, watcher>>

\* a releaseLock that leaves the token where it is
ReleaseCheckKeepsToken(p) ==
    /\ procs[p].pc = "release_check"
    /\ procs' = [procs EXCEPT ![p] =
                    Answer(@, IF @.acquired /\ @.result # "threw" THEN "success"
                              ELSE "failure")]
    /\ UNCHANGED <<local, session, now, last, supplied, idCache, scanned, ticks, tab, rpc, worker, watcher>>

\* releaseLock after the read: remove the token if it carries this id; the handler
\* then answers
ReleaseCheck(p) ==
    /\ procs[p].pc = "release_check"
    /\ session' = IF procs[p].lockData # NoLock /\ procs[p].lockData.id = procs[p].lockId
                  THEN NoLock ELSE session
    /\ procs' = [procs EXCEPT ![p] =
                    Answer(@, IF @.acquired /\ @.result # "threw" THEN "success"
                              ELSE "failure")]
    /\ UNCHANGED <<local, now, last, supplied, idCache, scanned, ticks, tab, rpc, worker, watcher>>

Next ==
    \/ Tick
    \/ ExtractOpportunities
    \/ \E p \in Procs :
        \/ StartExtractionComplete(p)
        \/ StartRpcUpsertOpportunity(p)
        \/ StartRpcUpsertContact(p)
        \/ StartRpcDelete(p)
        \/ StartDeleteRecord(p)
        \/ StartDeleteAllRecords(p)
        \/ LockGet(p)
        \/ LockCheck(p)
        \/ WaitWake(p)
        \/ Read(p)
        \/ Write(p)
        \/ WriteFails(p)
        \/ ReleaseGet(p)
        \/ ReleaseCheck(p)

Spec == Init /\ [][Next]_vars

\* the store already holds the contact a manual delete names
StoredInit ==
    /\ \E record \in {r \in TabContacts : Get(r, "id") \in DeletedContacts} :
          local = [DEFAULT_DATA EXCEPT !.contacts = <<record>>]
    /\ session = NoLock
    /\ now = 1
    /\ last = NoOp
    /\ supplied = Untracked
    /\ procs = [p \in Procs |-> IdleProc]
    /\ idCache = EmptyCache
    /\ scanned = <<>>
    /\ ticks = 0
    /\ tab = NoTab
    /\ rpc = NoRpc
    /\ worker = NoWorker
    /\ watcher = NoWatcher

StoredSpec == StoredInit /\ [][Next]_vars

----------------------------------------------------------------------------
(* The content script handling intercepted requests, one request per step          *)

\* a list row whose content hash, (hash >>> 0).toString(36), has no letter:
\* generateContentHash gives opp_1237037
DigitHashRow == [odooId |-> 3, name |-> <<"A", "s">>, stage |-> <<"N", "e", "w">>,
                 revenue |-> 800]

\* what the store may hold when the page loads: nothing, lead 2 under its Odoo id,
\* or what a scan with an empty cache read from one row
StoredLeads ==
    {<<>>} \cup {<<convertToOpportunity(r)>> : r \in {x \in LeadReadRows : x.id = Num(2)}}
    \cup {<<extractOpportunityFromRow(row, EmptyCache)>> : row \in LeadRows \cup {DigitHashRow}}

SigInit ==
    /\ \E opportunities \in StoredLeads :
          local = [DEFAULT_DATA EXCEPT !.opportunities = opportunities]
    /\ session = NoLock
    /\ now = 1
    /\ last = [op |-> "none", type |-> "contacts", records |-> <<>>, ids |-> {},
               before |-> DEFAULT_DATA]
    /\ supplied = [ok |-> FALSE, vals |-> EmptyCache]
    /\ procs = <<>>
    /\ idCache = EmptyCache
    /\ scanned = <<>>
    /\ ticks = 0
    /\ tab = NoTab
    /\ rpc = NoRpc
    /\ worker = NoWorker
    /\ watcher = NoWatcher

sigFrame == <<local, session, now, last, supplied, procs, scanned, ticks, tab, worker, watcher>>

\* handleRpcSignal has handled one more request
Handled(model, method, rows, activityIdArray, sent) ==
    /\ rpc.count < MaxSignals
    /\ rpc' = [rpc EXCEPT !.activityIdArray = activityIdArray, !.sent = sent,
                          !.signal = [model |-> model, method |-> method, rows |-> rows],
                          !.count = @ + 1,
                          !.pageRows = IF method = "web_search_read" /\ model = "mail.activity"
                                          /\ rows # <<>>
                                       THEN rows ELSE @,
                          !.bulkRead = @ \/ (method = "web_search_read"
                                               /\ model = "mail.activity" /\ rows # <<>>)]

\* web_search_read: crm.lead rows fill the opportunity cache, mail.activity rows
\* replace the activity array; nothing is sent
WebSearchRead ==
    \E model \in Models : \E records \in {<<>>} \cup Batches(RowsOf(model)) :
        /\ Handled(model, "web_search_read", records,
                   IF model = "mail.activity" /\ records # <<>>
                   THEN populateActivityIdCache(records) ELSE rpc.activityIdArray,
                   <<>>)
        /\ idCache' = IF model = "crm.lead" /\ records # <<>>
                       THEN populateOpportunityIdCache(idCache, records) ELSE idCache
        /\ UNCHANGED sigFrame

\* web_read_group: the __records of all groups of crm.lead fill the opportunity
\* cache; nothing is sent
WebReadGroup ==
    \E model \in Models : \E first, second \in {<<>>} \cup {<<r>> : r \in RowsOf(model)} :
        /\ Handled(model, "web_read_group", first \o second, rpc.activityIdArray, <<>>)
        /\ idCache' = IF model = "crm.lead" /\ first \o second # <<>>
                       THEN populateOpportunityIdCache(idCache, first \o second) ELSE idCache
        /\ UNCHANGED sigFrame

\* the record of a create / web_save: the result, or its id laid over args[1] when
\* the result carries the id alone
SavedRecord(save) ==
    LET res == save.result[1]
    IN  IF DOMAIN res = {"id"} THEN res @@ save.fieldData ELSE res

\* create / web_save: the name or summary of the record is cached with its id, the
\* record is converted and sent as ODOO_RPC_UPSERT
WebSave ==
    \E model \in Models : \E method \in {"create", "web_save"} : \E save \in SavesOf(model) :
        LET dataType == mapModelToDataType(model)
            record == SavedRecord(save)
        IN  /\ Handled(model, method, <<record>>,
                       IF dataType = "activities" /\ IsStr(Get(record, "summary"))
                       THEN setActivityId(rpc.activityIdArray, record.id.num)
                       ELSE rpc.activityIdArray,
                       <<[action |-> "ODOO_RPC_UPSERT", type |-> dataType,
                          records |-> <<convertRecord(dataType, record)>>]>>)
            /\ idCache' = IF dataType = "opportunities" /\ IsStr(Get(record, "name"))
                           THEN setOpportunityId(idCache, record.name.str, record.id.num)
                           ELSE idCache
            /\ UNCHANGED sigFrame

\* unlink / action_done: the ids of args[0] are prefixed and sent as ODOO_RPC_DELETE
Unlink ==
    \E model \in Models : \E method \in {"unlink", "action_done"} : \E id \in {1, 2} :
        LET dataType == mapModelToDataType(model)
            prefix == IF dataType = "contacts" THEN CONTACT
                      ELSE IF dataType = "opportunities" THEN OPP ELSE ACT
        IN  /\ Handled(model, method, <<>>, rpc.activityIdArray,
                       <<[action |-> "ODOO_RPC_DELETE", type |-> dataType,
                          ids |-> <<Template(prefix, Num(id))>>]>>)
            /\ UNCHANGED idCache
            /\ UNCHANGED sigFrame

\* name_create of res.partner: the contact of the result's id and the name given is
\* sent as ODOO_RPC_UPSERT; of another model: nothing
NameCreate ==
    \E model \in Models : \E row \in PartnerRows :
        /\ Handled(model, "name_create", <<>>, rpc.activityIdArray,
                   IF model = "res.partner"
                   THEN <<[action |-> "ODOO_RPC_UPSERT", type |-> "contacts",
                           records |-> <<[id |-> Template(CONTACT, row.id), name |-> row.name,
                                          email |-> EMPTY, phone |-> EMPTY,
                                          company |-> EMPTY, salesperson |-> EMPTY]>>]>>
                   ELSE <<>>)
        /\ UNCHANGED idCache
        /\ UNCHANGED sigFrame

\* write: logged, the web_save that follows carries the record
RpcWrite ==
    \E model \in Models :
        /\ Handled(model, "write", <<>>, rpc.activityIdArray, <<>>)
        /\ UNCHANGED idCache
        /\ UNCHANGED sigFrame

\* initializeOpportunityIdCacheFromStorage, called at the start of extractOpportunities
InitializeCache ==
    /\ rpc.count < MaxSignals
    /\ idCache' = initializeOpportunityIdCacheFromStorage(idCache, local.opportunities)
    /\ rpc' = [rpc EXCEPT !.signal = [NoSignal EXCEPT !.method = "initialize"],
                          !.sent = <<>>, !.count = @ + 1]
    /\ UNCHANGED sigFrame

\* clearOpportunityIdCache
ClearCache ==
    /\ rpc.count < MaxSignals
    /\ idCache' = EmptyCache
    /\ rpc' = [rpc EXCEPT !.signal = [NoSignal EXCEPT !.method = "clear"],
                          !.sent = <<>>, !.count = @ + 1]
    /\ UNCHANGED sigFrame

SigNext ==
    \/ WebSearchRead
    \/ WebReadGroup
    \/ WebSave
    \/ Unlink
    \/ NameCreate
    \/ RpcWrite
    \/ InitializeCache
    \/ ClearCache

SigSpec == SigInit /\ [][SigNext]_vars

----------------------------------------------------------------------------
(* background/index.ts: the message router, one message at a time, and the         *)
(* STORAGE_UPDATED broadcasts                                                       *)

MaxMessages == 2    \* messages the worker receives

Ok == [success |-> TRUE, error |-> "none"]
Failure(error) == [success |-> FALSE, error |-> error]

\* the messages the worker may receive: with the arguments their handler reads,
\* with one of them missing, without data, and one of an action the switch does not name
Messages ==
    {[action |-> a] : a \in {"EXTRACT_DATA", "EXTRACTION_ERROR", "GET_DATA", "TEST", "EXTRACT_STATUS",
                              "EXTRACTION_COMPLETE", "SAVE_DATA", "DELETE_RECORD",
                              "DELETE_ALL_RECORDS", "UPDATE_BADGE", "ODOO_RPC_UPSERT",
                              "ODOO_RPC_DELETE"}}
    \cup {[action |-> "EXTRACTION_COMPLETE",
           data |-> [contacts |-> b, opportunities |-> <<>>, activities |-> <<>>]] :
              b \in Batches(ContactCandidates)}
    \cup {[action |-> "SAVE_DATA", data |-> [contacts |-> <<r>>]] : r \in TabContacts}
    \cup {[action |-> "SAVE_DATA", data |-> [source |-> "popup"]]}
    \cup {[action |-> "DELETE_RECORD", data |-> [type |-> "contacts", id |-> id]] :
              id \in DeletedContacts}
    \cup {[action |-> "DELETE_RECORD", data |-> [type |-> "contacts"]]}
    \cup {[action |-> "DELETE_ALL_RECORDS", data |-> [type |-> "contacts"]],
          [action |-> "DELETE_ALL_RECORDS", data |-> [source |-> "popup"]]}
    \cup {[action |-> "UPDATE_BADGE", data |-> [text |-> "ON"]]}
    \cup {[action |-> "ODOO_RPC_UPSERT", data |-> [type |-> "contacts", records |-> b]] :
              b \in {<<>>} \cup {<<r>> : r \in TabContacts}}
    \cup {[action |-> "ODOO_RPC_UPSERT", data |-> [type |-> "contacts"]]}
    \cup {[action |-> "ODOO_RPC_DELETE", data |-> [type |-> "contacts", ids |-> ids]] :
              ids \in {{}} \cup {{id} : id \in DeletedContacts}}
    \cup {[action |-> "ODOO_RPC_DELETE", data |-> [type |-> "contacts"]]}

\* what the content script may answer to EXTRACT_DATA, and what handleExtractRequest
\* answers without it
ExtractReplies ==
    {Ok, Failure("Extraction already in progress"), Failure("No active tab found"),
     Failure("Content script not loaded")}

Has(message, key) == "data" \in DOMAIN message /\ key \in DOMAIN message.data

\* a handler that did not touch the store; lock tells whether it asked for the
\* write lock and got it
Untouched(reply, data, lock) ==
    [reply |-> reply, store |-> data, wrote |-> FALSE, broadcast |-> "none", lock |-> lock]

\* a handler that wrote the store and called broadcastStorageUpdate, awaited or not
Wrote(store, broadcast, lock) ==
    [reply |-> Ok, store |-> store, wrote |-> TRUE, broadcast |-> broadcast, lock |-> lock]

\* handleExtractionComplete / handleSaveData: acquireLock, saveData, broadcast, release
handleSaveData(message, data, held, time) ==
    IF held THEN Untouched(Failure("Could not acquire lock"), data, "failed")
    ELSE IF "data" \notin DOMAIN message THEN Untouched(Failure("TypeError"), data, "got")
    ELSE IF message.action = "EXTRACTION_COMPLETE"
            /\ ~(Has(message, "contacts") /\ Has(message, "opportunities")
                 /\ Has(message, "activities"))
    THEN Untouched(Failure("TypeError"), data, "got")
    ELSE Wrote(saveData(data,
                        IF Has(message, "contacts") THEN message.data.contacts ELSE <<>>,
                        IF Has(message, "opportunities") THEN message.data.opportunities
                        ELSE <<>>,
                        IF Has(message, "activities") THEN message.data.activities ELSE <<>>,
                        time), "fire", "got")

\* handleDeleteRecord: no lock
handleDeleteRecord(message, data) ==
    IF "data" \notin DOMAIN message THEN Untouched(Failure("TypeError"), data, "none")
    ELSE IF ~Has(message, "type") \/ ~Has(message, "id")
    THEN Untouched(Failure("Missing type or id"), data, "none")
    ELSE Wrote(deleteRecord(data, message.data.type, message.data.id), "fire", "none")

\* handleDeleteAllRecords: no lock
handleDeleteAllRecords(message, data) ==
    IF "data" \notin DOMAIN message THEN Untouched(Failure("TypeError"), data, "none")
    ELSE IF ~Has(message, "type") THEN Untouched(Failure("Missing type"), data, "none")
    ELSE Wrote(deleteAllRecords(data, message.data.type), "fire", "none")

\* handleRpcUpsert for contacts: upsertRecords returns at once on an empty batch and
\* throws when waitForLock gives up; the broadcast is awaited
handleRpcUpsert(message, data, timedOut, time) ==
    IF "data" \notin DOMAIN message THEN Untouched(Failure("TypeError"), data, "none")
    ELSE IF ~Has(message, "type") \/ ~Has(message, "records")
    THEN Untouched(Failure("Missing type or records"), data, "none")
    ELSE IF message.data.records = <<>>
    THEN [Untouched(Ok, data, "none") EXCEPT !.broadcast = "await"]
    ELSE IF timedOut
    THEN Untouched(Failure("Failed to acquire lock for upsert operation on contacts"), data,
                   "failed")
    ELSE Wrote(upsertRecords(data, message.data.type, message.data.records, time), "await",
               "got")

\* handleRpcDelete: deleteRecordsById returns 0 at once on no ids and throws when
\* waitForLock gives up; the broadcast is awaited
handleRpcDelete(message, data, timedOut, time) ==
    IF "data" \notin DOMAIN message THEN Untouched(Failure("TypeError"), data, "none")
    ELSE IF ~Has(message, "type") \/ ~Has(message, "ids")
    THEN Untouched(Failure("Missing type or ids"), data, "none")
    ELSE IF message.data.ids = {}
    THEN [Untouched(Ok, data, "none") EXCEPT !.broadcast = "await"]
    ELSE IF timedOut
    THEN Untouched(Failure("Failed to acquire lock for delete operation on contacts"), data,
                   "failed")
    ELSE Wrote(deleteRecordsById(data, message.data.type, message.data.ids, time), "await",
               "got")

\* the switch of handleAsync: held is what acquireLock finds, timedOut whether
\* waitForLock gives up
handleAsync(message, data, held, timedOut, time, extractReply) ==
    IF message.action = "EXTRACT_DATA" THEN Untouched(extractReply, data, "none")
    ELSE IF message.action \in {"EXTRACTION_COMPLETE", "SAVE_DATA"}
    THEN handleSaveData(message, data, held, time)
    ELSE IF message.action \in {"EXTRACTION_ERROR", "GET_DATA", "TEST"}
    THEN Untouched(Ok, data, "none")
    ELSE IF message.action = "DELETE_RECORD" THEN handleDeleteRecord(message, data)
    ELSE IF message.action = "DELETE_ALL_RECORDS" THEN handleDeleteAllRecords(message, data)
    ELSE IF message.action = "UPDATE_BADGE"
    THEN Untouched(IF "data" \in DOMAIN message THEN Ok ELSE Failure("TypeError"), data, "none")
    ELSE IF message.action = "ODOO_RPC_UPSERT"
    THEN handleRpcUpsert(message, data, timedOut, time)
    ELSE IF message.action = "ODOO_RPC_DELETE"
    THEN handleRpcDelete(message, data, timedOut, time)
    ELSE Untouched(Failure("Unknown action"), data, "none")

MsgInit ==
    /\ local = DEFAULT_DATA
    /\ session = NoLock
    /\ now = 1
    /\ last = [op |-> "none", type |-> "contacts", records |-> <<>>, ids |-> {},
               before |-> DEFAULT_DATA]
    /\ supplied = [ok |-> FALSE, vals |-> EmptyCache]
    /\ procs = <<>>
    /\ idCache = EmptyCache
    /\ scanned = <<>>
    /\ ticks = 0
    /\ tab = NoTab
    /\ rpc = NoRpc
    /\ worker = NoWorker
    /\ watcher = NoWatcher

msgFrame == <<now, last, supplied, procs, idCache, scanned, ticks, tab, rpc, watcher>>

\* chrome.runtime.onMessage: the listener calls handleAsync and returns true
Receive ==
    /\ worker.pc = "idle"
    /\ worker.handled < MaxMessages
    /\ \E message \in Messages :
          worker' = [worker EXCEPT !.pc = "handle", !.message = message, !.responses = <<>>,
                                   !.handled = @ + 1]
    /\ UNCHANGED <<local, session>>
    /\ UNCHANGED msgFrame

\* the handler of the message runs up to its call of broadcastStorageUpdate; a write
\* that changes odoo_data also fires the storage.onChanged listener, which broadcasts.
\* A lock held by another handler may be returned while waitForLock polls; a handler
\* that got the lock has released it when it returns.
Handle ==
    /\ worker.pc = "handle"
    /\ \E extractReply \in ExtractReplies, released \in BOOLEAN :
          LET held == HeldFresh(session, now)
              out == handleAsync(worker.message, local, held, held /\ ~released, now,
                                 extractReply)
              changed == out.wrote /\ out.store # local
          IN  /\ released => held
              /\ Size(out.store) <= MaxRecords
              /\ local' = out.store
              /\ session' = IF out.lock = "got" THEN NoLock ELSE session
              /\ worker' = [worker EXCEPT
                    !.pc = IF out.broadcast = "await" THEN "broadcast" ELSE "respond",
                    !.reply = out.reply,
                    !.lock = out.lock,
                    !.version = IF out.wrote THEN @ + 1 ELSE @,
                    !.pending = @ + (IF out.broadcast = "fire" THEN 1 ELSE 0)
                                  + (IF changed THEN 1 ELSE 0)]
    /\ UNCHANGED msgFrame

\* a broadcastStorageUpdate that sends nothing
BroadcastFails ==
    /\ worker.pending > 0
    /\ worker' = [worker EXCEPT !.pending = @ - 1]
    /\ UNCHANGED <<local, session>>
    /\ UNCHANGED msgFrame

\* broadcastStorageUpdate called without await, or by the storage.onChanged
\* listener: getData, then STORAGE_UPDATED with what it read
Broadcast ==
    /\ worker.pending > 0
    /\ worker' = [worker EXCEPT !.pending = @ - 1, !.emitted = local,
                                !.emittedVersion = worker.version]
    /\ UNCHANGED <<local, session>>
    /\ UNCHANGED msgFrame

\* await broadcastStorageUpdate() in handleRpcUpsert and handleRpcDelete
AwaitedBroadcast ==
    /\ worker.pc = "broadcast"
    /\ worker' = [worker EXCEPT !.pc = "respond", !.emitted = local,
                                !.emittedVersion = worker.version]
    /\ UNCHANGED <<local, session>>
    /\ UNCHANGED msgFrame

\* a router that lets a failed handler go unanswered
RespondToSuccessOnly ==
    /\ worker.pc = "respond"
    /\ worker' = [worker EXCEPT !.pc = "idle",
                     !.responses = IF worker.reply.success THEN Append(@, worker.reply) ELSE @]
    /\ UNCHANGED <<local, session>>
    /\ UNCHANGED msgFrame

\* handleAsync().then(sendResponse)
Respond ==
    /\ worker.pc = "respond"
    /\ worker' = [worker EXCEPT !.pc = "idle", !.responses = Append(@, worker.reply)]
    /\ UNCHANGED <<local, session>>
    /\ UNCHANGED msgFrame

\* another handler takes or returns the write lock between two messages
OtherHandler ==
    /\ worker.pc = "idle"
    /\ worker.handled < MaxMessages
    /\ session' = IF session = NoLock
                  THEN [id |-> <<"extraction", now>>, timestamp |-> now] ELSE NoLock
    /\ UNCHANGED <<local, worker>>
    /\ UNCHANGED msgFrame

MsgNext ==
    \/ Receive
    \/ Handle
    \/ Broadcast
    \/ AwaitedBroadcast
    \/ Respond
    \/ OtherHandler

MsgSpec == MsgInit /\ [][MsgNext]_vars

\* the event loop runs every task that is ready
MsgFairSpec ==
    MsgSpec /\ WF_vars(Handle) /\ WF_vars(Broadcast) /\ WF_vars(AwaitedBroadcast)
            /\ WF_vars(Respond)

----------------------------------------------------------------------------
(* content/domWatcher.ts and startAutoExtract / stopAutoExtract: the debounced     *)
(* callback of the DOM watcher, time counted in steps of the clock                 *)

DebounceTicks == 2  \* the debounce interval, in steps of the clock
MaxTime == 7        \* the clock stops here
MaxChanges == 3     \* relevant changes counted in one run of the timer

WatchInit ==
    /\ local = DEFAULT_DATA
    /\ session = NoLock
    /\ now = 1
    /\ last = [op |-> "none", type |-> "contacts", records |-> <<>>, ids |-> {},
               before |-> DEFAULT_DATA]
    /\ supplied = [ok |-> FALSE, vals |-> EmptyCache]
    /\ procs = <<>>
    /\ idCache = EmptyCache
    /\ scanned = <<>>
    /\ ticks = 0
    /\ tab = NoTab
    /\ rpc = NoRpc
    /\ worker = NoWorker
    /\ watcher = NoWatcher

watchFrame == <<local, session, last, supplied, procs, idCache, scanned, ticks, tab, rpc, worker>>

\* startAutoExtract: nothing when a watcher is active, else startDOMWatcher makes a
\* new DOMWatcher and starts its observer
StartAutoExtract ==
    /\ ~watcher.observer
    /\ watcher' = [NoWatcher EXCEPT !.observer = TRUE]
    /\ UNCHANGED now
    /\ UNCHANGED watchFrame

\* a stop that disconnects the observer and leaves the timer running
StopAutoExtractKeepsTimer ==
    /\ watcher.observer
    /\ watcher' = [watcher EXCEPT !.observer = FALSE]
    /\ UNCHANGED now
    /\ UNCHANGED watchFrame

\* stopAutoExtract: stopDOMWatcher calls stop(), which disconnects the observer and
\* clears the timer, and forgets the watcher
StopAutoExtract ==
    /\ watcher.observer
    /\ watcher' = [watcher EXCEPT !.observer = FALSE, !.debounceTimer = 0]
    /\ UNCHANGED now
    /\ UNCHANGED watchFrame

\* the MutationObserver callback with records of which one is a change of a data
\* row (relevant) or none is: a relevant change calls debouncedOnChange, which
\* clears the pending timer and sets a new one
Mutation(relevant) ==
    /\ watcher.observer
    /\ watcher.changes < MaxChanges
    /\ watcher' =
         IF relevant
         THEN [watcher EXCEPT
                 !.debounceTimer = now + DebounceTicks,
                 !.lastChange = now,
                 !.changes = IF watcher.debounceTimer = 0 THEN 1 ELSE @ + 1,
                 !.armed = IF watcher.debounceTimer = 0 THEN @ + 1 ELSE @,
                 !.bursts = IF watcher.lastChange = 0
                               \/ now - watcher.lastChange >= DebounceTicks
                            THEN @ + 1 ELSE @,
                 !.seen = "relevant"]
         ELSE [watcher EXCEPT !.seen = "other"]
    /\ UNCHANGED now
    /\ UNCHANGED watchFrame

\* the timer set by debouncedOnChange expires: onChange is called and the timer
\* field is cleared
TimerFires ==
    /\ watcher.debounceTimer # 0
    /\ now >= watcher.debounceTimer
    /\ watcher' = [watcher EXCEPT !.calls = @ + 1, !.debounceTimer = 0, !.seen = "none"]
    /\ UNCHANGED now
    /\ UNCHANGED watchFrame

\* time passes; a timer that is due runs before the clock moves on
WatchTick ==
    /\ now < MaxTime
    /\ ~(watcher.debounceTimer # 0 /\ now >= watcher.debounceTimer)
    /\ now' = now + 1
    /\ watcher' = [watcher EXCEPT !.seen = "none"]
    /\ UNCHANGED watchFrame

WatchNext ==
    \/ StartAutoExtract
    \/ StopAutoExtract
    \/ \E relevant \in BOOLEAN : Mutation(relevant)
    \/ TimerFires
    \/ WatchTick

WatchSpec == WatchInit /\ [][WatchNext]_vars

----------------------------------------------------------------------------
(* Claims about handlers that interleave (Spec) *)

\* the ids under which lead n can be stored: opp_<n>, or the content hash of its row
IdsOfLead(n) ==
    {Template(OPP, Num(n))}
    \cup {extractOpportunityFromRow(row, EmptyCache).id : row \in {r \in LeadRows : r.odooId = n}}

EntriesOfLead(n) ==
    {i \in DOMAIN local.opportunities : local.opportunities[i].id \in IdsOfLead(n)}

\* C2: the store never holds two entries for one lead, however scans' saves and
\* intercepted upserts interleave
C2_OneEntryPerLead ==
    \A row \in LeadRows : Cardinality(EntriesOfLead(row.odooId)) <= 1

Answered(p, op) == procs[p].pc = "done" /\ procs[p].op = op

RecordIds(p) == {procs[p].records[i].id : i \in DOMAIN procs[p].records}

\* C4: when two upsertRecords calls for disjoint ids have both returned successfully,
\* the collection holds every record of both
C4_BothSetsPresent ==
    \A p, q \in Procs :
        (/\ p # q
         /\ Answered(p, "upsertRecords") /\ Answered(q, "upsertRecords")
         /\ procs[p].result = "success" /\ procs[q].result = "success"
         /\ RecordIds(p) \cap RecordIds(q) = {})
        => (RecordIds(p) \cup RecordIds(q)) \subseteq
               {local.contacts[i].id : i \in DOMAIN local.contacts}

\* between acquireLock returning true and the write of the store
InReadModifyWrite(p) == procs[p].pc \in {"read", "write"} /\ procs[p].acquired

\* C5: two operations are never both inside their read-modify-write, unless the
\* later one acquired the lock 30 s or more after the earlier one did
C5_MutualExclusion ==
    \A p, q \in Procs :
        (p # q /\ InReadModifyWrite(p) /\ InReadModifyWrite(q)
               /\ procs[p].acquiredAt <= procs[q].acquiredAt)
        => procs[q].acquiredAt - procs[p].acquiredAt >= LOCK_TIMEOUT_MS

\* between an operation's getData() and the end of its storage.local.set
InStore(p) == procs[p].pc \in {"read", "write"}

\* C14: every operation that writes the store reads and writes it only while it
\* holds the write lock.
C14_WritesUnderLock ==
    \A p \in Procs : InStore(p) => procs[p].acquired

\* C15: every write of the store by a mutating operation sets lastSync to the time
\* of the write.
C15_LastSyncSet ==
    [][\A p \in Procs : Write(p) => local'.lastSync = now]_vars

\* an operation gives up: it answers with a failure
GivesUp(p) == procs[p].result # "failure" /\ procs'[p].result = "failure"

\* C16: an operation that asks for the lock and does not get it retries only after a
\* sleep of the poll interval and only within the retry window, then answers with a
\* failure without having written; it writes only after acquireLock returned true.
C16_BoundedAcquisition ==
    [][\A p \in Procs :
        /\ procs'[p].polls >= 1 =>
              /\ (procs'[p].polls - 1) * POLL_MS <= now - procs'[p].startTime
              /\ (procs'[p].polls - 1) * POLL_MS < MAX_WAIT_MS
        /\ (WaitWake(p) /\ now - procs[p].startTime >= MAX_WAIT_MS) => GivesUp(p)
        /\ GivesUp(p) => ~procs[p].wrote /\ local' = local
        /\ (Write(p) /\ Locking(procs[p].op)) => procs[p].acquired]_vars

\* a waitForLock caller found the lock held, slept, and gave up after the retry
\* window while the holder was still at work
C16_Witness ==
    \E p, q \in Procs :
        /\ procs[p].pc = "done" /\ procs[p].result = "failure"
        /\ procs[p].op \in {"upsertRecords", "deleteRecordsById"}
        /\ InStore(q) /\ procs[q].acquired

\* C17: acquireLock that read a lock token succeeds exactly when the token is at
\* least LOCK_TIMEOUT_MS old; otherwise it returns false and leaves the token as it is.
C17_StalenessOverride ==
    [][\A p \in Procs :
        (LockCheck(p) /\ procs[p].lockData # NoLock) =>
            /\ procs'[p].acquired <=> now - procs[p].lockData.timestamp >= LOCK_TIMEOUT_MS
            /\ ~procs'[p].acquired => session' = session
            /\ procs'[p].acquired => session' = [id |-> procs[p].lockId, timestamp |-> now]]_vars

\* an operation took over a token that was LOCK_TIMEOUT_MS old
C17_Witness ==
    \E p \in Procs :
        /\ procs[p].pc = "read" /\ procs[p].acquired
        /\ procs[p].lockData # NoLock
        /\ procs[p].acquiredAt - procs[p].lockData.timestamp = LOCK_TIMEOUT_MS

----------------------------------------------------------------------------
(* Claims about handlers run one at a time (SeqSpec) *)

IdsOf(records) == {Get(records[i], "id") : i \in DOMAIN records}

IsUpsert == last.op = "upsert"
IsMatchingUpsert == last.op = "upsert" /\ last.type \in {"opportunities", "activities"}
RealPrefix == IF last.type = "opportunities" THEN OPP ELSE ACT
MatchKey == IF last.type = "opportunities" THEN "name" ELSE "summary"
Before == last.before[last.type]
After == local[last.type]

\* C1: whatever store operations ran since the empty store, no collection holds two
\* entries with the same id.
C1_UniqueIds ==
    \A type \in RecordTypes : \A i, j \in DOMAIN local[type] :
        i # j => Get(local[type][i], "id") # Get(local[type][j], "id")

\* a bulk save brought a record whose id was stored already, next to another entry
C1_Witness ==
    /\ last.op = "saveData"
    /\ Len(After) = 2
    /\ IdsOf(last.records) \cap IdsOf(Before) # {}

\* C3: a single intercepted record with an authoritative id and the correlation key
\* of a stored hash-id entry leaves exactly one entry with the authoritative id and
\* none with the hash id.
C3_UpgradeReplacesHashId ==
    (IsMatchingUpsert /\ Len(last.records) = 1) =>
        LET record == last.records[1]
        IN  \A i \in DOMAIN Before :
                ( /\ ~MatchesRealId(RealPrefix, Before[i].id)
                  /\ MatchesRealId(RealPrefix, record.id)
                  /\ Truthy(Before[i][MatchKey])
                  /\ Truthy(record[MatchKey])
                  /\ Normalize(Before[i][MatchKey]) = Normalize(record[MatchKey]) )
                => /\ Cardinality({j \in DOMAIN After : After[j].id = record.id}) = 1
                   /\ Before[i].id \notin IdsOf(After)

\* the incoming record is the only one of its batch that can touch its entry
OnlyOne(j) ==
    IF last.type = "contacts"
    THEN \A k \in DOMAIN last.records : k # j => last.records[k].id # last.records[j].id
    ELSE Len(last.records) = 1

\* C6: an upsert of a record whose id is stored keeps every stored property the
\* record does not supply (absent, '', null, undefined) and takes every supplied one.
C6_MergePreservesUntouched ==
    IsUpsert =>
        \A j \in DOMAIN last.records : \A i \in DOMAIN Before :
            (OnlyOne(j) /\ Before[i].id = last.records[j].id) =>
                LET record == last.records[j]
                    given(k) == k \in DOMAIN record /\ record[k] \notin {EMPTY, NULL, UNDEFINED}
                IN  /\ After[i].id = record.id
                    /\ \A k \in DOMAIN Before[i] : ~given(k) => After[i][k] = Before[i][k]
                    /\ \A k \in DOMAIN record : given(k) => After[i][k] = record[k]
                    /\ DOMAIN After[i] = DOMAIN Before[i] \cup {k \in DOMAIN record : given(k)}

\* a stored contact met a record that supplies one property and leaves others out,
\* null or undefined
C6_Witness ==
    /\ IsUpsert /\ last.type = "contacts"
    /\ \E j \in DOMAIN last.records : \E i \in DOMAIN Before :
        /\ OnlyOne(j) /\ Before[i].id = last.records[j].id
        /\ Truthy(Get(Before[i], "name")) /\ Truthy(Get(Before[i], "email"))
        /\ \/ "name" \notin DOMAIN last.records[j]
           \/ last.records[j].name = NULL
        /\ After[i] # Before[i]

IsDefault(k, v) ==
    \/ k \in {"revenue", "probability"} /\ v = Num(0)
    \/ k = "type" /\ v = Str(TODO)
    \/ k = "status" /\ v = Str(OPEN)

\* C7: an incoming default value (revenue 0, probability 0, type 'todo', status
\* 'open') never replaces a stored non-default value.
C7_DefaultNeverOverwrites ==
    (IsUpsert /\ Len(last.records) = 1) =>
        \A i \in DOMAIN Before :
            Before[i].id = last.records[1].id =>
                \A k \in DOMAIN Before[i] \cap DOMAIN last.records[1] :
                    (IsDefault(k, last.records[1][k]) /\ ~IsDefault(k, Before[i][k]))
                    => After[i][k] = Before[i][k]

Reapply(data) ==
    IF last.type = "opportunities"
    THEN upsertOpportunitiesWithNameMatching(data, last.records, now)
    ELSE IF last.type = "activities"
    THEN upsertActivitiesWithSummaryMatching(data, last.records, now)
    ELSE upsertRecords(data, last.type, last.records, now)

\* C9: applying the same upsert a second time changes no collection.
C9_UpsertIdempotent ==
    IsUpsert => \A type \in RecordTypes : Reapply(local)[type] = local[type]

\* C10: a matching upsert never replaces the id of an entry that already carries an
\* authoritative id.
C10_AuthoritativeIdKept ==
    IsMatchingUpsert =>
        \A i \in DOMAIN Before :
            MatchesRealId(RealPrefix, Before[i].id) => After[i].id = Before[i].id

Prefix(type) == IF type = "opportunities" THEN OPP ELSE IF type = "activities" THEN ACT ELSE CONTACT

Authoritative(type, id) == MatchesRealId(Prefix(type), id)

\* C11: no store operation turns an entry's authoritative id into a provisional one:
\* a bulk save or an upsert leaves every entry at its place with an authoritative id
\* if it had one, and a delete only takes entries away.
C11_UpgradesOneWay ==
    \A type \in RecordTypes :
        IF last.op \in {"saveData", "upsert"}
        THEN /\ Len(local[type]) >= Len(last.before[type])
             /\ \A i \in DOMAIN last.before[type] :
                    Authoritative(type, last.before[type][i].id)
                    => Authoritative(type, local[type][i].id)
        ELSE \A j \in DOMAIN local[type] :
                \E i \in DOMAIN last.before[type] : last.before[type][i] = local[type][j]

\* an upsert changed the id of a stored entry while another entry kept its
\* authoritative id
C11_Witness ==
    /\ IsMatchingUpsert
    /\ \E i \in DOMAIN Before : After[i].id # Before[i].id
    /\ \E i \in DOMAIN Before : Authoritative(last.type, Before[i].id)

IsBatchDelete == last.op = "deleteRecordsById"

\* C12: a batch delete whose ids are all unknown returns 0 and leaves the three
\* collections as they were.
C12_DeleteUnknownIsNoOp ==
    (IsBatchDelete /\ last.ids \cap IdsOf(Before) = {}) =>
        /\ deletedCount(last.before, last.type, last.ids) = 0
        /\ \A type \in RecordTypes : local[type] = last.before[type]

\* a batch delete of unknown ids ran on a collection that holds entries
C12_Witness ==
    /\ IsBatchDelete
    /\ last.ids \cap IdsOf(Before) = {}
    /\ Before # <<>>

\* C13: a batch delete removes the entries with a requested id and no other, returns
\* the number of entries removed, at most the number of distinct ids requested, and
\* leaves no entry with a requested id.
C13_DeleteRemovesRequested ==
    IsBatchDelete =>
        LET count == deletedCount(last.before, last.type, last.ids)
            kept == {i \in DOMAIN Before : Before[i].id \notin last.ids}
        IN  /\ IdsOf(After) \cap last.ids = {}
            /\ Len(After) = Cardinality(kept)
            /\ \A i \in kept : \E j \in DOMAIN After : After[j] = Before[i]
            /\ \A j, k \in DOMAIN After :
                 j < k => \E i, m \in kept : i < m /\ Before[i] = After[j] /\ Before[m] = After[k]
            /\ count = Len(Before) - Len(After)
            /\ count <= Cardinality(last.ids)

\* a batch delete named a stored id and an unknown one, and another entry survived
C13_Witness ==
    /\ IsBatchDelete
    /\ last.ids \cap IdsOf(Before) # {}
    /\ last.ids \ IdsOf(Before) # {}
    /\ After # <<>>

----------------------------------------------------------------------------
(* The extraction guard and the traversal (TabSpec, TabFairSpec)                    *)

Triggers == {"manual", "auto"}

\* a trigger that arrives while a run is active
Dropped(kind) == Trigger(kind) /\ tab.isExtracting

\* a traversal run begins in this step
RunStarts == tab'.pc = "render" /\ tab'.trigger.outcome = "started" /\ tab'.active # tab.active

Standard(source) == source.kind \in {"wrap", "stop"} /\ source.pages <= maxPages

\* extractWithPagination has returned
Traversed == tab.pc = "send" /\ tab.dataModel # "unknown"

StopsAfterRead ==
    \/ tab.pageInfo # NoInfo /\ tab.pageInfo.currentEnd >= tab.pageInfo.total
    \/ ~getNextButton(tab.source, tab.page)

\* the loop is entered on a page where it must end before reading
StopsBeforeRead ==
    \/ tab.pageCount > maxPages
    \/ /\ getCurrentPageInfo(tab.source, tab.page) # NoInfo
       /\ <<getCurrentPageInfo(tab.source, tab.page).currentStart,
            getCurrentPageInfo(tab.source, tab.page).currentEnd>> \in tab.visitedRanges

\* C20: whatever the pager shows the page reader is called at most maxPages times;
\* the loop ends exactly at the first of: the page read ends at or past the total,
\* no enabled 'next' after a read, a range seen before, the ceiling; and every run
\* that starts comes to its end.
C20_TraversalTerminates ==
    /\ [](Len(tab.reads) <= maxPages)
    /\ [][/\ Extracted => (tab'.pc = "send" <=> StopsAfterRead)
          /\ LoopTop => /\ tab'.pc = "send" <=> StopsBeforeRead
                        /\ tab'.pc = "send" => tab'.reads = tab.reads]_vars
    /\ (tab.isExtracting ~> ~tab.isExtracting)

\* a list without pager text whose 'next' never disables was read up to the ceiling
C20_Witness ==
    /\ Traversed
    /\ tab.source.kind = "blind"
    /\ Len(tab.reads) = maxPages
    /\ tab.pageCount = maxPages + 1

\* the pager of the list shows ranges
Ranged(source) == source.kind \in {"wrap", "stop", "short"}

\* the range of the page shown has been read in this run
RangeVisited ==
    LET pageInfo == getCurrentPageInfo(tab.source, tab.page)
    IN  pageInfo # NoInfo /\ <<pageInfo.currentStart, pageInfo.currentEnd>> \in tab.visitedRanges

\* C21: while the pager shows ranges no page (range) is read twice in one run, the
\* ranges noted are those of the pages read or about to be read, and a loop entered
\* on a range already read ends without calling the page reader.
C21_NoRangeTwice ==
    [][/\ Ranged(tab'.source) =>
             \A i, j \in 1..Len(tab'.reads) : tab'.reads[i] = tab'.reads[j] => i = j
       /\ (LoopTop /\ RangeVisited) => tab'.pc = "send" /\ tab'.reads = tab.reads]_vars

\* a list that loops from its last page to its first while the total is not reached:
\* the run ended on the first page, read once
C21_Witness ==
    /\ Traversed
    /\ tab.source = [kind |-> "short", pages |-> MaxSourcePages]
    /\ tab.page = 1
    /\ tab.reads = [i \in 1..MaxSourcePages |-> i]
    /\ tab.pageCount = MaxSourcePages + 1

\* the loop ends here for want of progress, not because the total was reached
Stalls ==
    \/ LoopTop /\ StopsBeforeRead
    \/ /\ Extracted
       /\ ~(tab.pageInfo # NoInfo /\ tab.pageInfo.currentEnd >= tab.pageInfo.total)
       /\ ~getNextButton(tab.source, tab.page)

\* C30: a run that ends at the ceiling, on a repeated range or for want of a 'next'
\* control does not throw: extractWithPagination returns, and what it returns is
\* the rows of every page it visited, in the order of the visits.
C30_StallIsGraceful ==
    [][Stalls =>
         /\ tab'.pc = "send"
         /\ tab'.reads = (IF Extracted THEN Append(tab.reads, tab.page) ELSE tab.reads)
         /\ Len(tab'.reads) = (IF Extracted THEN tab.pageCount ELSE tab.pageCount - 1)
         /\ \A i \in 1..(Len(tab'.reads) - 1) :
               tab'.reads[i + 1] = NextPage(tab.source, tab'.reads[i])]_vars

\* a list without pager and without 'next' gave its one page
C30_Witness ==
    /\ Traversed
    /\ tab.source.kind = "bare"
    /\ tab.reads = <<1>>

----------------------------------------------------------------------------
(* The bulk save, record by record (SeqSpec)                                        *)

\* what saveData hands to deduplicateById for the collection of the batch
DedupInput == Before \o last.records

\* the last place of an id in a list
LastOf(records, id) ==
    CHOOSE i \in DOMAIN records :
        /\ Get(records[i], "id") = id
        /\ \A j \in DOMAIN records : Get(records[j], "id") = id => j <= i

\* C29: deduplicateById returns exactly one record for every id of its input and no
\* other, and the record of an id is the last one the input holds for it.
C29_DedupKeepsLast ==
    last.op = "saveData" =>
        /\ IdsOf(After) = IdsOf(DedupInput)
        /\ \A i, j \in DOMAIN After : Get(After[i], "id") = Get(After[j], "id") => i = j
        /\ \A i \in DOMAIN After :
              After[i] = DedupInput[LastOf(DedupInput, Get(After[i], "id"))]

\* the input held two different records of one id
C29_Witness ==
    /\ last.op = "saveData"
    /\ \E i, j \in DOMAIN DedupInput :
          /\ i < j
          /\ Get(DedupInput[i], "id") = Get(DedupInput[j], "id")
          /\ DedupInput[i] # DedupInput[j]
          /\ \E a \in DOMAIN After : After[a] = DedupInput[j]

\* C26: a bulk save that brings a record of a stored id with an empty field leaves
\* the stored non-empty value of that field in place.
C26_BulkSaveMergesFields ==
    last.op = "saveData" =>
        \A i \in DOMAIN Before : \A j \in DOMAIN last.records :
            Get(Before[i], "id") = Get(last.records[j], "id") =>
                \A key \in DOMAIN Before[i] :
                    ( /\ IsSupplied(Before[i][key])
                      /\ \A k \in DOMAIN last.records :
                            Get(last.records[k], "id") = Get(Before[i], "id")
                                => ~IsSupplied(Get(last.records[k], key)) )
                    => \E a \in DOMAIN After :
                          /\ Get(After[a], "id") = Get(Before[i], "id")
                          /\ Get(After[a], key) = Before[i][key]

----------------------------------------------------------------------------
(* The identifier caches and the intercepted requests (SigSpec)                     *)

\* the step is handleRpcSignal on a request of one of these methods
SignalOf(methods) == rpc'.count # rpc.count /\ rpc'.signal.method \in methods

BulkReads == {"web_search_read", "web_read_group"}

\* the first row of the request that carries this normalized name
FirstOfName(rows, key) ==
    CHOOSE i \in DOMAIN rows :
        /\ normalizeOpportunityName(rows[i].name.str) = key
        /\ \A j \in DOMAIN rows : normalizeOpportunityName(rows[j].name.str) = key => i <= j

\* C22: a normalized name that maps to an id keeps that id through every bulk read,
\* single insert and initialization from the store, whatever id they carry for the
\* name, until the cache is cleared; a name a bulk read brings for the first time gets
\* the id of the first row that carries it.
C22_FirstWriterWins ==
    [][/\ ~SignalOf({"clear"}) =>
             \A key \in DOMAIN idCache :
                 /\ key \in DOMAIN idCache'
                 /\ idCache'[key] = idCache[key]
                 /\ lookupOpportunityId(idCache', key) = lookupOpportunityId(idCache, key)
       /\ (SignalOf(BulkReads) /\ rpc'.signal.model = "crm.lead") =>
             \A key \in DOMAIN idCache' \ DOMAIN idCache :
                 idCache'[key] = rpc'.signal.rows[FirstOfName(rpc'.signal.rows, key)].id.num]_vars

\* a bulk read brought a cached name with another id
C22_Witness ==
    /\ rpc.signal.method \in BulkReads
    /\ rpc.signal.model = "crm.lead"
    /\ rpc.count >= 2
    /\ \E i \in DOMAIN rpc.signal.rows :
          LET key == normalizeOpportunityName(rpc.signal.rows[i].name.str)
          IN  /\ key \in DOMAIN idCache
              /\ idCache[key] # rpc.signal.rows[i].id.num
              /\ \A j \in DOMAIN rpc.signal.rows :
                    normalizeOpportunityName(rpc.signal.rows[j].name.str) = key
                        => idCache[key] # rpc.signal.rows[j].id.num

\* C23: once a bulk read of activities has been seen, lookupActivityId(i) is the id
\* of row i of the most recent one for every row of that page and none for every
\* other position.
C23_ActivityCacheIsThePage ==
    rpc.bulkRead =>
        \A i \in 0..(MaxBatch + 1) :
            lookupActivityId(rpc.activityIdArray, i)
                = (IF i < Len(rpc.pageRows) THEN rpc.pageRows[i + 1].id.num ELSE 0)

\* the upsert batch the rows of a bulk read convert to
BatchOf(model, rows) ==
    [action  |-> "ODOO_RPC_UPSERT", type |-> mapModelToDataType(model),
     records |-> [i \in DOMAIN rows |-> convertRecord(mapModelToDataType(model), rows[i])]]

\* C24: every web_search_read / web_read_group of a tracked entity that returns rows
\* sends the rows, converted, as one upsert batch and fills the identifier cache from
\* the same rows.
C24_BulkReadIsForwarded ==
    [][(SignalOf(BulkReads) /\ rpc'.signal.rows # <<>>
            /\ rpc'.signal.model \in {"res.partner", "crm.lead", "mail.activity"}) =>
         /\ rpc'.sent = <<BatchOf(rpc'.signal.model, rpc'.signal.rows)>>
         /\ rpc'.signal.model = "crm.lead" =>
               idCache' = populateOpportunityIdCache(idCache, rpc'.signal.rows)
         /\ rpc'.signal.model = "mail.activity" =>
               rpc'.activityIdArray = populateActivityIdCache(rpc'.signal.rows)]_vars

\* C25: a create / web_save of mail.activity.schedule sends nothing to the store and
\* puts the wizard's id neither into a record nor into the activity cache.
C25_WizardCreateIsIgnored ==
    [][(SignalOf({"create", "web_save"}) /\ rpc'.signal.model = "mail.activity.schedule") =>
         /\ rpc'.sent = <<>>
         /\ rpc'.activityIdArray = rpc.activityIdArray]_vars

----------------------------------------------------------------------------
(* The router and the broadcasts (MsgSpec, MsgFairSpec)                             *)

\* the step writes the store
Mutates == worker'.version # worker.version

\* the step sends STORAGE_UPDATED
Emits == Broadcast \/ AwaitedBroadcast

Malformed(message) ==
    \/ message.action = "EXTRACT_STATUS"
    \/ "data" \notin DOMAIN message
          /\ message.action \notin {"EXTRACT_DATA", "EXTRACTION_ERROR", "GET_DATA", "TEST"}
    \/ message.action = "EXTRACTION_COMPLETE" /\ ~Has(message, "contacts")
    \/ message.action = "DELETE_RECORD" /\ ~(Has(message, "type") /\ Has(message, "id"))
    \/ message.action = "DELETE_ALL_RECORDS" /\ ~Has(message, "type")
    \/ message.action = "ODOO_RPC_UPSERT" /\ ~(Has(message, "type") /\ Has(message, "records"))
    \/ message.action = "ODOO_RPC_DELETE" /\ ~(Has(message, "type") /\ Has(message, "ids"))

\* C28: every message gets exactly one response, a success flag with an error string
\* when the flag is false; an unknown action, a missing argument, a lock that cannot
\* be taken and an exception in the handler all give success false.
C28_OneResponsePerMessage ==
    [][/\ Len(worker'.responses) <= 1
       /\ \A i \in DOMAIN worker'.responses :
             /\ worker'.responses[i].success \in BOOLEAN
             /\ ~worker'.responses[i].success => worker'.responses[i].error # "none"
       /\ (worker'.pc = "idle" /\ worker'.message # NoMessage) => Len(worker'.responses) = 1
       /\ (Handle /\ (Malformed(worker.message) \/ worker'.lock = "failed")) =>
             ~worker'.reply.success /\ local' = local
       /\ Respond => worker'.responses = <<worker.reply>>]_vars

\* an upsert that could not take the lock was answered with the failure
C28_Witness ==
    /\ worker.pc = "idle"
    /\ worker.message.action = "ODOO_RPC_UPSERT"
    /\ session # NoLock
    /\ Len(worker.responses) = 1
    /\ worker.lock = "failed"
    /\ worker.responses[1] = Failure("Failed to acquire lock for upsert operation on contacts")

----------------------------------------------------------------------------
(* Manual deletes and the write lock among concurrent handlers (Spec, StoredSpec)   *)

\* q is a manual delete that has returned, and it removed id
ManuallyDeleted(q, id) ==
    /\ procs[q].pc = "done" /\ procs[q].result = "success"
    /\ \/ procs[q].op = "deleteRecord" /\ id \in procs[q].ids
       \/ procs[q].op = "deleteAllRecords"

\* p writes what it computed from a read that still saw id, after id was removed
WritesOver(p, id) ==
    /\ Write(p)
    /\ Locking(procs[p].op)
    /\ id \in IdsOf(procs[p].existing.contacts)
    /\ id \notin IdsOf(local.contacts)
    /\ id \notin IdsOf(procs[p].records)

\* C31: a manual delete that returned while an upsert or RPC delete was between its
\* read and its write is not undone: after that write the deleted record is absent
\* and the records of the other operation are present.
C31_ManualDeleteNotUndone ==
    [][\A p, q \in Procs : \A id \in DeletedContacts :
          (ManuallyDeleted(q, id) /\ WritesOver(p, id)) =>
              /\ id \notin IdsOf(local'.contacts)
              /\ procs[p].op = "upsertRecords" =>
                    IdsOf(procs[p].records) \subseteq IdsOf(local'.contacts)]_vars

\* C32: an operation that did not get the write lock leaves the token of the
\* holder in place when its finally block calls releaseLock, also when both built
\* their lock ids in the same millisecond.
C32_FailedAcquirerKeepsToken ==
    [][\A p \in Procs : (ReleaseCheck(p) /\ ~procs[p].acquired) => session' = session]_vars

\* C33: once every operation that ran has finished, the lock token is absent, so
\* the next acquireLock finds no token
C33_LockReleasedAtRest ==
    (\A p \in Procs : ~Running(p)) => session = NoLock

\* two operations took the lock and finished, one by a write that threw, and no
\* token is left
C33_Witness ==
    /\ \A p \in Procs : procs[p].pc = "done" /\ procs[p].acquired
    /\ \E p, q \in Procs : procs[p].result = "failure" /\ procs[q].result = "success"
    /\ session = NoLock

----------------------------------------------------------------------------
(* The guard flag over the life of a run (TabSpec)                                  *)

\* handleExtraction returns from a run in this step
RunEnds == Sent \/ ErrorSent

\* a run has ended in this tab and none is active
AfterRun == ~RunActive /\ tab.result # "none"

\* what the watcher's callback refuses for a reason other than the flag
NoList(kind) == kind = "auto" /\ tab.dataModel = "unknown"

\* C34: the flag is clear whenever no run is active: the end of a run, by success
\* or by failure, clears it; a trigger dropped during a run leaves the flag set and
\* the run where it is; a trigger that arrives after a run has ended is not refused
\* by the flag and starts a run.
C34_GuardClearedAtRunEnd ==
    [][/\ RunEnds => ~tab'.isExtracting /\ tab'.pc = "idle"
       /\ ~RunActive' => ~tab'.isExtracting
       /\ \A kind \in Triggers :
             /\ Dropped(kind) => tab'.isExtracting /\ tab'.pc = tab.pc
             /\ (Trigger(kind) /\ AfterRun /\ ~NoList(kind)) =>
                   RunStarts /\ tab'.isExtracting]_vars

\* a run that dropped a manual trigger has ended by failure, and the flag is clear
C34_Witness ==
    /\ AfterRun
    /\ tab.result = "failure"
    /\ tab.trigger = [kind |-> "manual", outcome |-> "failure"]
    /\ ~tab.isExtracting

----------------------------------------------------------------------------
(* What an operation on one collection leaves alone (SeqSpec)                       *)

\* C35: an upsert (plain or matching by name or summary) and a batch delete on one
\* collection leave the two other collections as they were, and after an upsert
\* every entry of its collection is still at its place.
C35_OtherCollectionsUntouched ==
    last.op \in {"upsert", "deleteRecordsById"} =>
        /\ \A type \in RecordTypes \ {last.type} : local[type] = last.before[type]
        /\ last.op = "upsert" =>
              /\ Len(After) >= Len(Before)
              /\ \A i \in DOMAIN Before :
                    \/ After[i].id = Before[i].id
                    \/ IsMatchingUpsert /\ After[i].id \in IdsOf(last.records)

\* a contact was upserted into a store that holds an opportunity
C35_Witness ==
    /\ IsUpsert /\ last.type = "contacts"
    /\ last.before.opportunities # <<>>
    /\ After # Before

----------------------------------------------------------------------------
(* What the opportunity cache holds (SigSpec)                                       *)

\* the ids Odoo gave to the leads of intercepted requests
OdooLeadIds == {r.id.num : r \in LeadSaves} \cup {r.odooId : r \in LeadRows \cup {DigitHashRow}}

\* the numbers a content hash of a list row reads as
HashNumbers ==
    {n \in {ParseInt(SubSeq(c.id.str, Len(OPP) + 1, Len(c.id.str))) :
               c \in {x \in {extractOpportunityFromRow(row, EmptyCache) :
                                 row \in LeadRows \cup {DigitHashRow}} :
                          MatchesRealId(OPP, x.id)}} : TRUE}

\* C36: every value of the opportunity cache is an id given by Odoo, never a number
\* read from a content hash, so the page reader writes opp_<n> only for the Odoo id
\* of a lead.
C36_CacheHoldsOdooIds ==
    /\ \A key \in DOMAIN idCache :
          idCache[key] \in OdooLeadIds /\ idCache[key] \notin HashNumbers
    /\ \A row \in LeadRows \cup {DigitHashRow} :
          LET id == extractOpportunityFromRow(row, idCache).id
          IN  lookupOpportunityId(idCache, row.name) # 0 =>
                id \in {Template(OPP, Num(n)) : n \in OdooLeadIds}

----------------------------------------------------------------------------
(* The debounce of the DOM watcher (WatchSpec)                                      *)

\* a callback is still to come for the changes seen
Pending(w) == IF w.debounceTimer # 0 THEN 1 ELSE 0

\* what holds of the timer and of stop() whichever way bursts are counted: onChange
\* is called by an active watcher one interval after the last relevant change, and a
\* stopped watcher has no timer and calls nothing
TimerAndStop ==
    /\ TimerFires => watcher.observer /\ now = watcher.lastChange + DebounceTicks
    /\ ~watcher'.observer => watcher'.debounceTimer = 0
    /\ (~watcher.observer /\ ~watcher'.observer) => watcher'.calls = watcher.calls

\* C37: a burst of relevant changes in which consecutive changes are less than the
\* debounce interval apart shares one arming of the timer (each change re-arms it),
\* and every arming gets exactly one call of onChange, one interval after the last
\* change; after stop() no pending or later callback fires. Calls are counted per
\* arming: a change that comes a full interval after the one before it, but before
\* the timer's callback has run, re-arms the timer too and shares its call.
C37_Debounce ==
    [][/\ TimerAndStop
       /\ watcher'.observer => watcher'.calls = watcher'.armed - Pending(watcher')
       /\ (Mutation(TRUE) /\ watcher.lastChange # 0
             /\ now - watcher.lastChange < DebounceTicks) =>
                 watcher'.armed = watcher.armed /\ watcher'.bursts = watcher.bursts]_vars

\* three changes, not all at once, were answered by one call
C37_Witness ==
    /\ watcher.observer
    /\ watcher.changes = 3
    /\ watcher.calls = 1
    /\ watcher.armed = 1
    /\ watcher.debounceTimer = 0
    /\ now > DebounceTicks + 1

====
